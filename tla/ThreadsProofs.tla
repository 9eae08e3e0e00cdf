---------------------------- MODULE ThreadsProofs ----------------------------
(* Theorems about tproxy with the epoll thread inside the command thread's   *)
(* deliver_msg and recover, for every set of connections, routes,            *)
(* descriptors, budgets and faults.                                          *)
EXTENDS TcpNetworkThreads, TcpNetworkProofs, FiniteSetTheorems

-----------------------------------------------------------------------------
(* The inductive invariant.                                                  *)

\* The places of recover at which it holds iterators.
Places == {"close", "clear", "erase"}

\* The connection of e is past the accept.
Accepted(e) == e[1] \in asked /\ ~Waits(e[1])

\* The command thread is in one command at a time, and with DIRECT in none.
OneAtATime ==
  /\ waiting # Idle => ~is_direct
  /\ delivering # NotDelivering => ~is_direct /\ waiting = Idle
  /\ recovering # NotRecovering =>
       ~is_direct /\ waiting = Idle /\ delivering = NotDelivering

\* The message in hand is for an accepted connection; a descriptor loaded for
\* it stays that of its connection until that is closed.
InHand ==
  delivering # NotDelivering =>
    /\ delivering.msg.from = Peer(delivering.msg.fd)
    /\ Accepted(delivering.msg.fd)
    /\ delivering.at = "loaded" =>
         fd_cell[delivering.msg.fd] \in {delivering.fd, NoFd}

\* An iterator to the entry of f is held.
Held(f) == \E i \in DOMAIN recovering.its : recovering.its[i] = f

\* recover holds one or two iterators while it closes, and none between.
ItsKept ==
  /\ recovering.at = "next" => recovering.its = <<>> /\ recovering.dangling = {}
  /\ recovering.at \in Places =>
       /\ Len(recovering.its) \in 1 .. 2
       /\ Len(recovering.its) = 2 => recovering.its[1] # recovering.its[2]
       /\ \A f \in recovering.dangling : Held(f)

\* The entry of f is there but do_close has closed its descriptor already.
Half(f) ==
  /\ recovering.at \in {"clear", "erase"}
  /\ f = Closing /\ f \notin recovering.dangling

\* DescriptorsConsistent, but for the one entry that do_close is in.
EntriesMeanwhile ==
  \A f \in Fd : HasEntry(f) =>
    /\ Accepted(EndOf(f))
    /\ ~Half(f) => sock[f] = EndOf(f) /\ fd_cell[EndOf(f)] = f
    /\ Half(f) =>
         /\ sock[f] = Free
         /\ fd_cell[EndOf(f)] = IF recovering.at = "clear" THEN f ELSE NoFd

CellsMeanwhile ==
  \A e \in End : fd_cell[e] # NoFd => HasEntry(fd_cell[e]) /\ EndOf(fd_cell[e]) = e

SocketsMeanwhile == \A f \in Fd : sock[f] \in End => HasEntry(f)

\* The iterators held lead to entries, unless the epoll thread has erased them,
\* and are those of the two ends of a connection or of what is left of it.
HeldAlive ==
  recovering.at \in Places =>
    /\ \A i \in DOMAIN recovering.its :
         recovering.its[i] \notin recovering.dangling => HasEntry(recovering.its[i])
    /\ recovering.dangling = {} =>
         /\ Len(recovering.its) = 2 =>
              EndOf(recovering.its[2]) = Peer(EndOf(Closing))
         /\ Len(recovering.its) = 1 => fd_cell[Peer(EndOf(Closing))] = NoFd

\* Both ends of a connection are closed or none, but for the one recover is
\* closing; nothing is said once it is bound to use an erased iterator.
Paired ==
  recovering = NotRecovering \/ recovering.dangling = {} =>
    \A e \in End : fd_cell[e] = NoFd /\ fd_cell[Peer(e)] # NoFd =>
      recovering # NotRecovering /\ Held(fd_cell[Peer(e)])

\* A frame that went astray comes from a connection closed for good.
StrayGone ==
  \A e \in End : \A i \in DOMAIN out[e] :
    out[e][i].from # Peer(e) =>
      fd_cell[out[e][i].from] = NoFd /\ Accepted(out[e][i].from)

TablesMeanwhile ==
  EntriesMeanwhile /\ CellsMeanwhile /\ SocketsMeanwhile /\ HeldAlive /\ Paired

ThreadsInv ==
  /\ ThreadsTypeOK /\ OneAtATime /\ InHand /\ ItsKept
  /\ ConnectedOnce /\ MessagesAddressed
  /\ ~overtaken => TablesMeanwhile /\ StrayGone

-----------------------------------------------------------------------------
(* Small facts.                                                              *)

LEMMA SeqOfEmpty == SetToSeq({}) = <<>>
<1>1. Cardinality({}) = 0
  BY FS_EmptySet
<1>2. \A f \in [1 .. 0 -> {}] : f = <<>>
  OBVIOUS
<1>3. <<>> \in [1 .. 0 -> {}] /\ IsInjective(<<>>)
  BY DEF IsInjective
<1>. QED  BY <1>1, <1>2, <1>3 DEF SetToSeq

LEMMA SeqOfOne ==
  ASSUME NEW x
  PROVE  SetToSeq({x}) = <<x>>
<1>1. Cardinality({x}) = 1
  BY FS_Singleton
<1>2. \A f \in [1 .. 1 -> {x}] : f = <<x>>
  OBVIOUS
<1>3. <<x>> \in [1 .. 1 -> {x}] /\ IsInjective(<<x>>)
  BY DEF IsInjective
<1>. QED  BY <1>1, <1>2, <1>3 DEF SetToSeq

LEMMA OneOrTwo ==
  ASSUME NEW S, NEW f \in S
  PROVE  /\ <<f>> \o <<>> = <<f>>
         /\ \A g \in S : <<f>> \o <<g>> = <<f, g>>
<1>1. <<f>> \in Seq(S) /\ \A g \in S : <<g>> \in Seq(S)
  OBVIOUS
<1>2. <<f>> \o <<>> = <<f>>
  BY <1>1, ConcatEmptySeq
<1>3. ASSUME NEW g \in S PROVE <<f>> \o <<g>> = <<f, g>>
  <2>1. /\ <<f>> \o <<g>> \in Seq(S) /\ Len(<<f>> \o <<g>>) = 2
        /\ (<<f>> \o <<g>>)[1] = f /\ (<<f>> \o <<g>>)[2] = g
    BY <1>1, ConcatProperties
  <2>2. \A s \in Seq(S) : Len(s) = 2 /\ s[1] = f /\ s[2] = g => s = <<f, g>>
    OBVIOUS
  <2>. QED  BY <2>1, <2>2
<1>. QED  BY <1>2, <1>3

\* The iterators close_connection looks up: the entry's own and, if the other
\* end is open, that one's.
LEMMA PairSeq ==
  ASSUME TypeOK, NEW f \in Fd, HasEntry(f)
  PROVE  LET g == fd_cell[Peer(EndOf(f))]
         IN  \/ Pair(f) = {f} /\ SetToSeq(Pair(f) \ {f}) = <<>>
             \/ /\ g \in Fd /\ g # f /\ HasEntry(g)
                /\ Pair(f) = {f, g} /\ SetToSeq(Pair(f) \ {f}) = <<g>>
<1>. DEFINE g == fd_cell[Peer(EndOf(f))]
<1>1. CASE g \in Fd /\ g # f /\ HasEntry(g)
  <2>1. Pair(f) = {f, g} /\ Pair(f) \ {f} = {g}
    BY <1>1 DEF Pair
  <2>. QED  BY <1>1, <2>1, SeqOfOne
<1>2. CASE ~(g \in Fd /\ g # f /\ HasEntry(g))
  <2>1. Pair(f) = {f} /\ Pair(f) \ {f} = {}
    BY <1>2 DEF Pair
  <2>. QED  BY <2>1, SeqOfEmpty
<1>. QED  BY <1>1, <1>2

LEMMA RecoveringType ==
  ASSUME ThreadsTypeOK
  PROVE  /\ recovering.at \in {"out", "next"} \cup Places
         /\ recovering = NotRecovering <=> recovering.at = "out"
         /\ recovering # NotRecovering =>
              /\ recovering.todo \subseteq Fd
              /\ recovering.its \in Seq(Fd)
              /\ recovering.dangling \subseteq Fd
              /\ \A i \in DOMAIN recovering.its : recovering.its[i] \in Fd
<1>1. CASE recovering = NotRecovering
  BY <1>1 DEF NotRecovering
<1>2. CASE recovering \in [at : {"next", "close", "clear", "erase"}, todo : SUBSET Fd,
                            its : Seq(Fd), dangling : SUBSET Fd]
  <2>1. recovering.at \in {"next"} \cup Places
    BY <1>2 DEF Places
  <2>2. recovering # NotRecovering
    BY <1>2 DEF NotRecovering
  <2>3. /\ recovering.todo \subseteq Fd /\ recovering.its \in Seq(Fd)
        /\ recovering.dangling \subseteq Fd
    BY <1>2
  <2>4. \A s \in Seq(Fd) : \A i \in DOMAIN s : s[i] \in Fd
    OBVIOUS
  <2>. QED  BY <2>1, <2>2, <2>3, <2>4 DEF Places
<1>. QED  BY <1>1, <1>2 DEF ThreadsTypeOK

LEMMA DeliveringType ==
  ASSUME ThreadsTypeOK, delivering # NotDelivering
  PROVE  /\ delivering.at \in {"taken", "checked", "failed", "loaded"}
         /\ delivering.msg \in Msg
         /\ delivering.msg.fd \in End /\ delivering.msg.from \in End
         /\ delivering.msg.n \in Nat
         /\ delivering.at = "loaded" => delivering.fd \in Fd \cup {NoFd}
<1>1. CASE delivering \in [at : {"taken", "checked", "failed"}, msg : Msg]
  BY <1>1 DEF Msg
<1>2. CASE delivering \in [at : {"loaded"}, msg : Msg, fd : Fd \cup {NoFd}]
  BY <1>2 DEF Msg
<1>. QED  BY <1>1, <1>2 DEF ThreadsTypeOK

\* Where the process is, in terms of at alone.
LEMMA OutOrIn ==
  /\ NotDelivering.at = "out" /\ NotRecovering.at = "out"
  /\ \A p, m : [at |-> p, msg |-> m] # NotDelivering
  /\ \A p, m, f : [at |-> p, msg |-> m, fd |-> f] # NotDelivering
BY DEF NotDelivering, NotRecovering

\* What the epoll thread does to recover's iterators.
LEMMA OverlapFacts ==
  ASSUME ThreadsTypeOK, Overlap
  PROVE  /\ overtaken' \in BOOLEAN
         /\ ~overtaken' => ~overtaken
         /\ ~overtaken' /\ recovering.at \in {"clear", "erase"}
              /\ sock[Closing] = Free => sock'[Closing] = Free
         /\ recovering = NotRecovering => recovering' = recovering
         /\ recovering # NotRecovering =>
              /\ recovering' # NotRecovering
              /\ recovering' \in [at : {"next", "close", "clear", "erase"},
                   todo : SUBSET Fd, its : Seq(Fd), dangling : SUBSET Fd]
              /\ recovering'.at = recovering.at /\ recovering'.its = recovering.its
              /\ recovering'.todo = recovering.todo
              /\ recovering'.dangling = recovering.dangling \cup
                   {f \in Fd : Held(f) /\ HasEntry(f) /\ ~HasEntry(f)'}
<1>1. overtaken' = (overtaken \/ /\ recovering.at \in {"clear", "erase"}
                                 /\ sock[Closing] = Free /\ sock'[Closing] # Free)
  BY DEF Overlap
<1>2. overtaken' \in BOOLEAN /\ (~overtaken' => ~overtaken)
  BY <1>1, Zenon
<1>3. ~overtaken' /\ recovering.at \in {"clear", "erase"}
        /\ sock[Closing] = Free => sock'[Closing] = Free
  BY <1>1, Zenon
<1>4. recovering = NotRecovering => recovering' = recovering
  BY DEF Overlap
<1>5. ASSUME recovering # NotRecovering
      PROVE  /\ recovering' # NotRecovering
             /\ recovering' \in [at : {"next", "close", "clear", "erase"},
                   todo : SUBSET Fd, its : Seq(Fd), dangling : SUBSET Fd]
             /\ recovering'.at = recovering.at /\ recovering'.its = recovering.its
             /\ recovering'.todo = recovering.todo
             /\ recovering'.dangling = recovering.dangling \cup
                  {f \in Fd : Held(f) /\ HasEntry(f) /\ ~HasEntry(f)'}
  <2>. DEFINE lost == {f \in Fd : Held(f) /\ HasEntry(f) /\ ~HasEntry(f)'}
  <2>1. recovering' = [recovering EXCEPT !.dangling = recovering.dangling \cup lost]
    BY <1>5 DEF Overlap, Held, HasEntry
  <2>2. recovering \in [at : {"next", "close", "clear", "erase"}, todo : SUBSET Fd,
                         its : Seq(Fd), dangling : SUBSET Fd]
    BY <1>5 DEF ThreadsTypeOK
  <2>3. lost \in SUBSET Fd
    OBVIOUS
  <2>. HIDE DEF lost
  <2>4. recovering' \in [at : {"next", "close", "clear", "erase"}, todo : SUBSET Fd,
                          its : Seq(Fd), dangling : SUBSET Fd]
    BY <2>1, <2>2, <2>3
  <2>5. recovering' # NotRecovering
    BY <2>4 DEF NotRecovering
  <2>6. /\ recovering'.at = recovering.at /\ recovering'.its = recovering.its
        /\ recovering'.todo = recovering.todo
        /\ recovering'.dangling = recovering.dangling \cup lost
    BY <2>1, <2>2
  <2>. QED  BY <2>4, <2>5, <2>6 DEF lost
<1>. QED  BY <1>2, <1>3, <1>4, <1>5

\* While nothing is erased, the iterators stay what they are.
LEMMA OverlapQuiet ==
  ASSUME ThreadsTypeOK, Overlap, \A f \in Fd : HasEntry(f) => HasEntry(f)'
  PROVE  recovering' = recovering
<1>1. CASE recovering = NotRecovering
  BY <1>1 DEF Overlap
<1>2. CASE recovering # NotRecovering
  <2>1. {f \in Fd : /\ \E i \in DOMAIN recovering.its : recovering.its[i] = f
                    /\ HasEntry(f) /\ fd_to_channel_status'[f] = NoEntry} = {}
    BY DEF HasEntry
  <2>2. recovering' = [recovering EXCEPT !.dangling = recovering.dangling \cup {}]
    BY <1>2, <2>1 DEF Overlap
  <2>3. recovering \in [at : {"next", "close", "clear", "erase"}, todo : SUBSET Fd,
                         its : Seq(Fd), dangling : SUBSET Fd]
    BY <1>2 DEF ThreadsTypeOK
  <2>. QED  BY <2>2, <2>3
<1>. QED  BY <1>1, <1>2

-----------------------------------------------------------------------------
(* What every step does to the connections.                                  *)

\* Accepted connections stay so, and get no new descriptors.
AcceptedStay == \A e \in End : Accepted(e) => Accepted(e)'
CellsKeep == \A e \in End : Accepted(e) => fd_cell'[e] \in {fd_cell[e], NoFd}

LEMMA AcceptedStays ==
  ASSUME TypeOK, ConnectedOnce,
         \/ UNCHANGED <<asked, backlog>>
         \/ \E c \in Conn : ClientConnect(c)
         \/ \E c \in Conn : Accepting(c) /\ Taken
  PROVE  AcceptedStay
<1>1. CASE UNCHANGED <<asked, backlog>>
  BY <1>1 DEF AcceptedStay, Accepted, Waits
<1>2. CASE \E c \in Conn : ClientConnect(c)
  <2>1. PICK c \in Conn : ClientConnect(c)
    BY <1>2
  <2>2. /\ backlog \in Seq(Conn) /\ backlog' = Append(backlog, c)
        /\ c \notin asked /\ asked' = asked \cup {c}
    BY <2>1 DEF ClientConnect, TypeOK
  <2>3. /\ DOMAIN backlog' = 1 .. (Len(backlog) + 1)
        /\ DOMAIN backlog = 1 .. Len(backlog) /\ Len(backlog) \in Nat
        /\ \A i \in DOMAIN backlog : backlog'[i] = backlog[i]
        /\ backlog'[Len(backlog) + 1] = c
    BY <2>2, AppendProperties
  <2>4. \A d : Waits(d)' => Waits(d) \/ d = c
    BY <2>3 DEF Waits
  <2>. QED  BY <2>2, <2>4 DEF AcceptedStay, Accepted
<1>3. CASE \E c \in Conn : Accepting(c) /\ Taken
  <2>1. /\ backlog \in Seq(Conn) /\ backlog # <<>>
        /\ backlog' = Tail(backlog) /\ asked' = asked
    BY <1>3 DEF Accepting, Taken, TypeOK
  <2>2. /\ DOMAIN backlog = 1 .. Len(backlog) /\ Len(backlog) \in Nat
        /\ Len(backlog) > 0
        /\ DOMAIN backlog' = 1 .. (Len(backlog) - 1)
        /\ \A i \in DOMAIN backlog' : backlog'[i] = backlog[i + 1]
    BY <2>1, HeadTailProperties, EmptySeq
  <2>3. \A d : Waits(d)' => Waits(d)
    BY <2>2 DEF Waits
  <2>. QED  BY <2>1, <2>3 DEF AcceptedStay, Accepted
<1>. QED  BY <1>1, <1>2, <1>3

LEMMA InHandKeeps ==
  ASSUME ThreadsTypeOK, InHand, AcceptedStay, CellsKeep, delivering' = delivering
  PROVE  InHand'
<1>1. CASE delivering = NotDelivering
  BY <1>1 DEF InHand
<1>2. CASE delivering # NotDelivering
  <2>1. delivering.msg.fd \in End /\ Accepted(delivering.msg.fd)
    BY <1>2, DeliveringType DEF InHand
  <2>2. Accepted(delivering.msg.fd)'
        /\ fd_cell'[delivering.msg.fd] \in {fd_cell[delivering.msg.fd], NoFd}
    BY <2>1 DEF AcceptedStay, CellsKeep
  <2>. QED  BY <1>2, <2>2 DEF InHand, Accepted, Waits
<1>. QED  BY <1>1, <1>2

\* Another receives nothing new, or what its peer sent, or a closed one's frame.
LEMMA StrayKeeps ==
  ASSUME TypeOK, StrayGone, AcceptedStay, CellsKeep, UNCHANGED out
  PROVE  StrayGone'
<1>1. ASSUME NEW e \in End, NEW i \in DOMAIN out[e], out[e][i].from # Peer(e)
      PROVE  fd_cell'[out[e][i].from] = NoFd /\ Accepted(out[e][i].from)'
  <2>1. out[e] \in Seq(Item)
    BY DEF TypeOK
  <2>2. out[e][i] \in Item
    BY <2>1
  <2>3. out[e][i].from \in End
    BY <2>2 DEF Item
  <2>4. fd_cell[out[e][i].from] = NoFd /\ Accepted(out[e][i].from)
    BY <1>1 DEF StrayGone
  <2>. QED  BY <2>3, <2>4 DEF AcceptedStay, CellsKeep
<1>. QED  BY <1>1 DEF StrayGone, Accepted, Waits

LEMMA StrayWrite ==
  ASSUME TypeOK, StrayGone, UNCHANGED <<asked, backlog, fd_cell>>,
         NEW to \in End, NEW item \in Item,
         out' = [out EXCEPT ![to] = Append(@, item)],
         item.from # Peer(to) => fd_cell[item.from] = NoFd /\ Accepted(item.from)
  PROVE  StrayGone'
<1>1. out[to] \in Seq(Item) /\ out' = [out EXCEPT ![to] = Append(out[to], item)]
  BY DEF TypeOK
<1>. DEFINE longer == Append(out[to], item)
<1>2. /\ DOMAIN longer = 1 .. (Len(out[to]) + 1) /\ Len(out[to]) \in Nat
      /\ DOMAIN out[to] = 1 .. Len(out[to])
      /\ \A i \in 1 .. Len(out[to]) : longer[i] = out[to][i]
      /\ longer[Len(out[to]) + 1] = item
  BY <1>1, AppendProperties
<1>3. \A e \in End : out'[e] = IF e = to THEN longer ELSE out[e]
  BY <1>1 DEF TypeOK
<1>. HIDE DEF longer
<1>4. \A e : Accepted(e)' <=> Accepted(e)
  BY DEF Accepted, Waits
<1>5. ASSUME NEW e \in End, NEW i \in DOMAIN out'[e], out'[e][i].from # Peer(e)
      PROVE  fd_cell[out'[e][i].from] = NoFd /\ Accepted(out'[e][i].from)
  <2>1. CASE e # to
    BY <1>3, <1>5, <2>1 DEF StrayGone
  <2>2. CASE e = to /\ i = Len(out[to]) + 1
    BY <1>2, <1>3, <1>5, <2>2
  <2>3. CASE e = to /\ i # Len(out[to]) + 1
    <3>1. i \in DOMAIN out[to] /\ out'[e][i] = out[to][i]
      BY <1>2, <1>3, <2>3
    <3>. QED  BY <1>5, <2>3, <3>1 DEF StrayGone
  <2>. QED  BY <2>1, <2>2, <2>3
<1>. QED  BY <1>4, <1>5 DEF StrayGone

-----------------------------------------------------------------------------
(* What every step does to the tables.                                       *)

\* Entries are marked or unmarked at most, and sockets closed only if they have
\* none.
SameEnds ==
  \A f \in Fd : /\ HasEntry(f)' <=> HasEntry(f)
                /\ HasEntry(f) => EndOf(f)' = EndOf(f)
SameSockets ==
  \A f \in Fd : sock'[f] = sock[f] \/ (~HasEntry(f) /\ sock'[f] \notin End)

\* What that leaves of the tables, as long as do_close is where it was.
LEMMA EntriesQuiet ==
  ASSUME ThreadsTypeOK, EntriesMeanwhile, CellsMeanwhile, SocketsMeanwhile,
         AcceptedStay, SameEnds, SameSockets, UNCHANGED fd_cell,
         \A f \in Fd : /\ Half(f)' <=> Half(f)
                       /\ Half(f) => recovering'.at = recovering.at
  PROVE  EntriesMeanwhile' /\ CellsMeanwhile' /\ SocketsMeanwhile'
<1>0. TypeOK
  BY DEF ThreadsTypeOK
<1>1. EntriesMeanwhile'
  <2>1. ASSUME NEW f \in Fd, HasEntry(f)'
        PROVE  /\ Accepted(EndOf(f))'
               /\ ~Half(f)' => sock'[f] = EndOf(f)' /\ fd_cell'[EndOf(f)'] = f
               /\ Half(f)' => /\ sock'[f] = Free
                              /\ fd_cell'[EndOf(f)'] =
                                   IF recovering'.at = "clear" THEN f ELSE NoFd
    <3>1. HasEntry(f) /\ EndOf(f)' = EndOf(f) /\ EndOf(f) \in End /\ sock'[f] = sock[f]
      BY <1>0, <2>1, EntryType DEF SameEnds, SameSockets
    <3>2. PICK e \in End : e = EndOf(f) /\ EndOf(f)' = e
      BY <3>1
    <3>3. Accepted(e)'
      BY <3>1, <3>2 DEF EntriesMeanwhile, AcceptedStay
    <3>4. Accepted(EndOf(f))'
      BY <3>2, <3>3 DEF Accepted
    <3>5. CASE Half(f)
      <4>1. Half(f)' /\ recovering'.at = recovering.at
        BY <3>5 DEF Half, Closing
      <4>2. sock[f] = Free
            /\ fd_cell[e] = IF recovering.at = "clear" THEN f ELSE NoFd
        BY <3>1, <3>2, <3>5 DEF EntriesMeanwhile
      <4>. QED  BY <3>1, <3>2, <3>4, <4>1, <4>2
    <3>6. CASE ~Half(f)
      <4>1. ~Half(f)'
        BY <3>6 DEF Half, Closing
      <4>2. sock[f] = e /\ fd_cell[e] = f
        BY <3>1, <3>2, <3>6 DEF EntriesMeanwhile
      <4>. QED  BY <3>1, <3>2, <3>4, <4>1, <4>2
    <3>. QED  BY <3>5, <3>6
  <2>. QED  BY <2>1 DEF EntriesMeanwhile
<1>2. CellsMeanwhile'
  <2>1. ASSUME NEW e \in End, fd_cell[e] # NoFd
        PROVE  HasEntry(fd_cell[e])' /\ EndOf(fd_cell[e])' = e
    <3>1. fd_cell[e] \in Fd /\ HasEntry(fd_cell[e]) /\ EndOf(fd_cell[e]) = e
      BY <1>0, <2>1 DEF TypeOK, CellsMeanwhile
    <3>. QED  BY <3>1 DEF SameEnds, HasEntry, EndOf
  <2>. QED  BY <2>1 DEF CellsMeanwhile, HasEntry, EndOf
<1>3. SocketsMeanwhile'
  BY DEF SocketsMeanwhile, SameEnds, SameSockets
<1>. QED  BY <1>1, <1>2, <1>3

LEMMA TablesQuiet ==
  ASSUME ThreadsTypeOK, TablesMeanwhile, AcceptedStay, SameEnds, SameSockets,
         UNCHANGED <<fd_cell, recovering>>
  PROVE  TablesMeanwhile'
<1>1. \A f \in Fd : Half(f)' <=> Half(f)
  BY DEF Half, Closing
<1>2. EntriesMeanwhile' /\ CellsMeanwhile' /\ SocketsMeanwhile'
  BY <1>1, EntriesQuiet DEF TablesMeanwhile
<1>3. HeldAlive'
  <2>1. CASE recovering.at \in Places
    <3>1. \A i \in DOMAIN recovering.its : recovering.its[i] \in Fd
      BY <2>1, RecoveringType DEF Places
    <3>2. \A i \in DOMAIN recovering.its :
            recovering.its[i] \notin recovering.dangling =>
              HasEntry(recovering.its[i]) /\ HasEntry(recovering.its[i])'
              /\ EndOf(recovering.its[i])' = EndOf(recovering.its[i])
      BY <2>1, <3>1 DEF TablesMeanwhile, HeldAlive, SameEnds, HasEntry, EndOf
    <3>. QED  BY <2>1, <3>2 DEF TablesMeanwhile, HeldAlive, HasEntry, EndOf, Closing
  <2>. QED  BY <2>1 DEF HeldAlive
<1>4. Paired'
  BY DEF TablesMeanwhile, Paired, Held
<1>. QED  BY <1>2, <1>3, <1>4 DEF TablesMeanwhile

\* An end has one entry.
LEMMA OneEntry ==
  ASSUME ThreadsTypeOK, EntriesMeanwhile, NEW f \in Fd, NEW g \in Fd,
         HasEntry(f), HasEntry(g), EndOf(f) = EndOf(g)
  PROVE  f = g
<1>1. NoFd # f /\ NoFd # g
  BY Sentinels
<1>2. CASE Half(f) /\ Half(g)
  BY <1>2 DEF Half
<1>3. CASE ~Half(f) /\ ~Half(g)
  BY <1>3 DEF EntriesMeanwhile
<1>4. CASE Half(f) /\ ~Half(g)
  BY <1>1, <1>4 DEF EntriesMeanwhile
<1>5. CASE ~Half(f) /\ Half(g)
  BY <1>1, <1>5 DEF EntriesMeanwhile
<1>. QED  BY <1>2, <1>3, <1>4, <1>5

\* A set of entries that holds, with one, that of the other end if it is open.
PairsIn(F) ==
  \A f \in F : /\ HasEntry(f)
               /\ fd_cell[Peer(EndOf(f))] # NoFd => fd_cell[Peer(EndOf(f))] \in F

LEMMA PairIsIn ==
  ASSUME ThreadsTypeOK, EntriesMeanwhile, CellsMeanwhile, NEW f \in Fd, HasEntry(f)
  PROVE  Pair(f) \in SUBSET Fd /\ PairsIn(Pair(f))
<1>0. TypeOK
  BY DEF ThreadsTypeOK
<1>. DEFINE g == fd_cell[Peer(EndOf(f))]
<1>1. EndOf(f) \in End /\ Peer(EndOf(f)) \in End /\ Peer(Peer(EndOf(f))) = EndOf(f)
  BY <1>0, EntryType, PeerFacts
<1>2. g # NoFd => g \in Fd /\ HasEntry(g) /\ EndOf(g) = Peer(EndOf(f))
  BY <1>0, <1>1 DEF TypeOK, CellsMeanwhile
<1>3. g # NoFd => g \in Pair(f)
  BY <1>2 DEF Pair
<1>4. ASSUME NEW h \in Pair(f), fd_cell[Peer(EndOf(h))] # NoFd
      PROVE  fd_cell[Peer(EndOf(h))] \in Pair(f)
  <2>1. CASE h = f
    BY <1>3, <1>4, <2>1
  <2>2. CASE h # f
    <3>1. h = g /\ h \in Fd
      BY <2>2 DEF Pair
    <3>2. g # NoFd
      BY <3>1, Sentinels
    <3>3. Peer(EndOf(h)) = EndOf(f)
      BY <1>1, <1>2, <3>1, <3>2
    <3>4. fd_cell[EndOf(f)] \in {f, NoFd}
      BY DEF EntriesMeanwhile
    <3>. QED  BY <1>4, <3>3, <3>4 DEF Pair
  <2>. QED  BY <2>1, <2>2
<1>. QED  BY <1>4, PairType DEF PairsIn

\* Closing both ends, with recover in the middle of its work.
LEMMA TablesClose ==
  ASSUME ThreadsTypeOK, TablesMeanwhile, AcceptedStay,
         NEW F \in SUBSET Fd, PairsIn(F), Close(F), Overlap
  PROVE  TablesMeanwhile' /\ CellsShrink
<1>0. TypeOK /\ EntriesMeanwhile /\ CellsMeanwhile /\ SocketsMeanwhile
  BY DEF ThreadsTypeOK, TablesMeanwhile
<1>1. /\ \A f \in Fd : sock'[f] = IF f \in F THEN Free ELSE sock[f]
      /\ \A e \in End : fd_cell'[e] =
           IF \E f \in F : EndOf(f) = e THEN NoFd ELSE fd_cell[e]
      /\ \A f \in Fd : fd_to_channel_status'[f] =
           IF f \in F THEN NoEntry ELSE fd_to_channel_status[f]
  BY DEF Close, CloseFds, ClearCells, EraseEntries
<1>2. CellsShrink
  BY <1>1 DEF CellsShrink
<1>3. \A f \in Fd : /\ HasEntry(f)' <=> HasEntry(f) /\ f \notin F
                    /\ HasEntry(f)' => EndOf(f)' = EndOf(f)
  BY <1>1 DEF HasEntry, EndOf
<1>4. ASSUME NEW f \in Fd, HasEntry(f)'
      PROVE  Half(f)' <=> Half(f)
  <2>1. CASE recovering = NotRecovering
    BY <2>1, OverlapFacts, RecoveringType DEF Half, Places
  <2>2. CASE recovering # NotRecovering
    <3>1. /\ recovering'.at = recovering.at /\ recovering'.its = recovering.its
          /\ f \in recovering'.dangling <=> f \in recovering.dangling
      BY <1>4, <2>2, OverlapFacts
    <3>. QED  BY <3>1 DEF Half, Closing
  <2>. QED  BY <2>1, <2>2
<1>5. ASSUME NEW f \in Fd, HasEntry(f)'
      PROVE  /\ HasEntry(f) /\ f \notin F /\ EndOf(f)' = EndOf(f) /\ EndOf(f) \in End
             /\ sock'[f] = sock[f] /\ fd_cell'[EndOf(f)] = fd_cell[EndOf(f)]
  <2>1. HasEntry(f) /\ f \notin F /\ EndOf(f)' = EndOf(f) /\ EndOf(f) \in End
    BY <1>0, <1>3, <1>5, EntryType
  <2>2. \A g \in F : EndOf(g) # EndOf(f)
    BY <1>0, <2>1, OneEntry DEF PairsIn
  <2>. QED  BY <1>1, <2>1, <2>2
<1>6. EntriesMeanwhile'
  <2>1. ASSUME NEW f \in Fd, HasEntry(f)'
        PROVE  /\ Accepted(EndOf(f))'
               /\ ~Half(f)' => sock'[f] = EndOf(f)' /\ fd_cell'[EndOf(f)'] = f
               /\ Half(f)' => /\ sock'[f] = Free
                              /\ fd_cell'[EndOf(f)'] =
                                   IF recovering'.at = "clear" THEN f ELSE NoFd
    <3>1. PICK e \in End : e = EndOf(f) /\ EndOf(f)' = e
      BY <1>5, <2>1
    <3>2. Accepted(e)'
      BY <1>0, <1>5, <2>1, <3>1 DEF EntriesMeanwhile, AcceptedStay
    <3>3. Accepted(EndOf(f))'
      BY <3>1, <3>2 DEF Accepted
    <3>4. Half(f) => recovering'.at = recovering.at
      BY OverlapFacts DEF Half, NotRecovering
    <3>. QED  BY <1>0, <1>4, <1>5, <2>1, <3>1, <3>3, <3>4 DEF EntriesMeanwhile
  <2>. QED  BY <2>1 DEF EntriesMeanwhile
<1>7. ASSUME NEW e \in End, fd_cell'[e] # NoFd
      PROVE  /\ fd_cell'[e] = fd_cell[e] /\ fd_cell[e] \in Fd
             /\ HasEntry(fd_cell[e]) /\ EndOf(fd_cell[e]) = e
             /\ fd_cell[e] \notin F
  <2>1. fd_cell'[e] = fd_cell[e] /\ \A f \in F : EndOf(f) # e
    BY <1>1, <1>7
  <2>2. fd_cell[e] \in Fd /\ HasEntry(fd_cell[e]) /\ EndOf(fd_cell[e]) = e
    BY <1>0, <1>7, <2>1 DEF TypeOK, CellsMeanwhile
  <2>. QED  BY <2>1, <2>2
<1>8. CellsMeanwhile'
  <2>1. ASSUME NEW e \in End, fd_cell'[e] # NoFd
        PROVE  HasEntry(fd_cell[e])' /\ EndOf(fd_cell[e])' = e
    <3>1. PICK f \in Fd : f = fd_cell[e] /\ fd_cell'[e] = f
      BY <1>7, <2>1
    <3>2. HasEntry(f)' /\ EndOf(f)' = e
      BY <1>3, <1>7, <2>1, <3>1
    <3>. QED  BY <3>1, <3>2 DEF HasEntry, EndOf
  <2>. QED  BY <2>1 DEF CellsMeanwhile
<1>9. SocketsMeanwhile'
  BY <1>0, <1>1, <1>3, Sentinels DEF SocketsMeanwhile
<1>10. HeldAlive'
  <2>1. CASE recovering.at \notin Places
    <3>1. recovering'.at = recovering.at
      BY OverlapFacts
    <3>. QED  BY <2>1, <3>1 DEF HeldAlive
  <2>2. CASE recovering.at \in Places
    <3>1. /\ recovering'.at = recovering.at /\ recovering'.its = recovering.its
          /\ recovering'.dangling = recovering.dangling \cup
               {f \in Fd : Held(f) /\ HasEntry(f) /\ ~HasEntry(f)'}
          /\ \A i \in DOMAIN recovering.its : recovering.its[i] \in Fd
          /\ recovering.its \in Seq(Fd)
      BY <2>2, OverlapFacts, RecoveringType DEF NotRecovering, Places
    <3>2. ASSUME NEW i \in DOMAIN recovering.its,
                 recovering.its[i] \notin recovering'.dangling
          PROVE  /\ HasEntry(recovering.its[i]) /\ HasEntry(recovering.its[i])'
                 /\ EndOf(recovering.its[i])' = EndOf(recovering.its[i])
                 /\ EndOf(recovering.its[i]) \in End
      <4>1. PICK f \in Fd : f = recovering.its[i]
        BY <3>1
      <4>2. HasEntry(f)
        BY <2>2, <3>1, <3>2, <4>1 DEF TablesMeanwhile, HeldAlive
      <4>3. Held(f)
        BY <4>1 DEF Held
      <4>4. HasEntry(f)'
        BY <3>1, <3>2, <4>1, <4>2, <4>3
      <4>5. EndOf(f)' = EndOf(f) /\ EndOf(f) \in End
        BY <1>5, <4>4
      <4>. QED  BY <3>1, <4>1, <4>2, <4>4, <4>5 DEF HasEntry, EndOf
    <3>3. ASSUME recovering'.dangling = {}
          PROVE  /\ recovering.dangling = {}
                 /\ \A i \in DOMAIN recovering.its :
                      /\ EndOf(recovering.its[i])' = EndOf(recovering.its[i])
                      /\ EndOf(recovering.its[i]) \in End
      BY <3>1, <3>2, <3>3
    <3>4. ASSUME recovering'.dangling = {}, Len(recovering.its) = 2
          PROVE  EndOf(recovering.its[2])' = Peer(EndOf(Closing))'
      <4>1. 1 \in DOMAIN recovering.its /\ 2 \in DOMAIN recovering.its
        BY <3>1, <3>4
      <4>2. EndOf(recovering.its[2]) = Peer(EndOf(recovering.its[1]))
        BY <2>2, <3>3, <3>4 DEF TablesMeanwhile, HeldAlive, Closing
      <4>3. /\ EndOf(recovering.its[1])' = EndOf(recovering.its[1])
            /\ EndOf(recovering.its[2])' = EndOf(recovering.its[2])
        BY <3>3, <3>4, <4>1
      <4>. QED  BY <3>1, <4>2, <4>3 DEF Closing, Peer, EndOf
    <3>5. ASSUME recovering'.dangling = {}, Len(recovering.its) = 1
          PROVE  fd_cell'[Peer(EndOf(Closing))'] = NoFd
      <4>1. 1 \in DOMAIN recovering.its
        BY <3>1, <3>5
      <4>2. PICK e \in End : e = EndOf(recovering.its[1]) /\ EndOf(recovering.its[1])' = e
        BY <3>3, <3>5, <4>1
      <4>3. fd_cell[Peer(e)] = NoFd
        BY <2>2, <3>3, <3>5, <4>2 DEF TablesMeanwhile, HeldAlive, Closing
      <4>4. fd_cell'[Peer(e)] = NoFd
        BY <1>2, <4>3, PeerFacts DEF CellsShrink
      <4>5. EndOf(Closing)' = e
        BY <3>1, <4>2 DEF Closing, EndOf
      <4>. QED  BY <4>4, <4>5 DEF Peer
    <3>6. \A i \in DOMAIN recovering'.its :
            recovering'.its[i] \notin recovering'.dangling => HasEntry(recovering.its[i])'
      BY <3>1, <3>2
    <3>. QED  BY <3>1, <3>4, <3>5, <3>6 DEF HeldAlive, HasEntry, EndOf, Closing, Peer
  <2>. QED  BY <2>1, <2>2
<1>11. Paired'
  <2>1. ASSUME recovering' = NotRecovering \/ recovering'.dangling = {}
        PROVE  recovering = NotRecovering \/ recovering.dangling = {}
    BY <2>1, OverlapFacts
  <2>2. \A f : Held(f)' <=> Held(f)
    BY OverlapFacts DEF Held
  <2>3. recovering' # NotRecovering <=> recovering # NotRecovering
    BY OverlapFacts
  <2>4. ASSUME recovering' = NotRecovering \/ recovering'.dangling = {},
               NEW e \in End, fd_cell'[e] = NoFd, fd_cell'[Peer(e)] # NoFd
        PROVE  recovering # NotRecovering /\ Held(fd_cell'[Peer(e)])
    <3>1. Peer(e) \in End /\ Peer(Peer(e)) = e
      BY PeerFacts
    <3>2. /\ fd_cell'[Peer(e)] = fd_cell[Peer(e)] /\ fd_cell[Peer(e)] \in Fd
          /\ fd_cell[Peer(e)] # NoFd /\ fd_cell[Peer(e)] \notin F
      BY <1>7, <2>4, <3>1
    <3>3. fd_cell[e] = NoFd
      <4>1. SUFFICES ASSUME fd_cell[e] # NoFd PROVE FALSE
        OBVIOUS
      <4>2. PICK f \in F : EndOf(f) = e
        BY <1>1, <2>4, <4>1
      <4>. QED  BY <3>2, <4>2 DEF PairsIn
    <3>. QED  BY <2>1, <2>4, <3>2, <3>3 DEF TablesMeanwhile, Paired
  <2>. QED  BY <2>2, <2>3, <2>4 DEF Paired
<1>. QED  BY <1>2, <1>6, <1>8, <1>9, <1>10, <1>11 DEF TablesMeanwhile

\* An accept takes free descriptors.  None has an entry, unless it overtakes
\* do_close.
LEMMA FreeIsEmpty ==
  ASSUME ThreadsTypeOK, EntriesMeanwhile, Overlap, ~overtaken',
         NEW f \in Fd, sock[f] = Free, sock'[f] # Free
  PROVE  ~HasEntry(f)
<1>0. TypeOK
  BY DEF ThreadsTypeOK
<1>1. SUFFICES ASSUME HasEntry(f) PROVE FALSE
  OBVIOUS
<1>2. CASE Half(f)
  BY <1>2, OverlapFacts DEF Half
<1>3. CASE ~Half(f)
  <2>1. EndOf(f) \in End
    BY <1>0, <1>1, EntryType
  <2>. QED  BY <1>1, <1>3, <2>1, Sentinels DEF EntriesMeanwhile
<1>. QED  BY <1>2, <1>3

LEMMA TablesAdd ==
  ASSUME ThreadsTypeOK, TablesMeanwhile, AcceptedStay, Overlap, ~overtaken',
         NEW c \in Conn, NEW f \in Fd, NEW g \in Fd, f # g,
         sock[f] = Free, sock[g] = Free, Waits(c),
         Accepted(<<c, "client">>)', Accepted(<<c, "peer">>)',
         add_fd_to_channel(c, f, g)
  PROVE  TablesMeanwhile'
<1>. DEFINE client == <<c, "client">>
            peer == <<c, "peer">>
            entry(e) == [self_fd |-> e, disconnected |-> FALSE]
<1>0. TypeOK /\ EntriesMeanwhile /\ CellsMeanwhile /\ SocketsMeanwhile
  BY DEF ThreadsTypeOK, TablesMeanwhile
<1>1. /\ client \in End /\ peer \in End /\ client # peer
      /\ \A e \in End : e \notin {client, peer} => e[1] # c
      /\ \A e \in End : Peer(e)[1] = e[1]
      /\ \A e : Accepted(e) => e # client /\ e # peer
  BY DEF End, Side, Peer, Accepted
<1>2. /\ \A h \in Fd : sock'[h] = IF h = g THEN peer ELSE IF h = f THEN client ELSE sock[h]
      /\ \A e \in End : fd_cell'[e] =
           IF e = peer THEN g ELSE IF e = client THEN f ELSE fd_cell[e]
      /\ \A h \in Fd : fd_to_channel_status'[h] =
           IF h = g THEN entry(peer) ELSE IF h = f THEN entry(client)
           ELSE fd_to_channel_status[h]
  BY <1>0, <1>1 DEF add_fd_to_channel, TypeOK
<1>3. ~HasEntry(f) /\ ~HasEntry(g)
  BY <1>0, <1>1, <1>2, FreeIsEmpty, Sentinels
<1>4. entry(client) # NoEntry /\ entry(peer) # NoEntry
  <2>1. \A e \in End : entry(e) \in [self_fd : End, disconnected : BOOLEAN]
    OBVIOUS
  <2>2. \A e \in End : entry(e) # NoEntry
    BY <2>1, Sentinels
  <2>. QED  BY <1>1, <2>2
<1>5. \A h \in Fd :
        /\ h \notin {f, g} => /\ HasEntry(h)' <=> HasEntry(h)
                              /\ HasEntry(h) => EndOf(h)' = EndOf(h)
        /\ HasEntry(f)' /\ EndOf(f)' = client /\ HasEntry(g)' /\ EndOf(g)' = peer
  BY <1>2, <1>4 DEF HasEntry, EndOf
<1>6. recovering' = recovering
  BY <1>3, <1>5, OverlapQuiet
<1>7. \A h \in Fd : Half(h)' <=> Half(h)
  BY <1>6 DEF Half, Closing
<1>8. ~Half(f) /\ ~Half(g)
  <2>1. sock'[f] # Free /\ sock'[g] # Free
    BY <1>1, <1>2, Sentinels
  <2>. QED  BY <2>1, OverlapFacts DEF Half
<1>9. EntriesMeanwhile'
  <2>1. ASSUME NEW h \in Fd, HasEntry(h)'
        PROVE  /\ Accepted(EndOf(h))'
               /\ ~Half(h) => sock'[h] = EndOf(h)' /\ fd_cell'[EndOf(h)'] = h
               /\ Half(h) => /\ sock'[h] = Free
                             /\ fd_cell'[EndOf(h)'] =
                                  IF recovering.at = "clear" THEN h ELSE NoFd
    <3>1. CASE h \in {f, g}
      <4>1. PICK e \in {client, peer} : EndOf(h)' = e /\ sock'[h] = e /\ fd_cell'[e] = h
        BY <1>1, <1>2, <1>5, <3>1
      <4>2. Accepted(e)'
        BY <4>1
      <4>3. Accepted(EndOf(h))'
        BY <4>1, <4>2 DEF Accepted
      <4>. QED  BY <1>8, <3>1, <4>1, <4>3
    <3>2. CASE h \notin {f, g}
      <4>1. HasEntry(h)
        BY <1>5, <2>1, <3>2
      <4>2. PICK e \in End : e = EndOf(h) /\ EndOf(h)' = e
        BY <1>0, <1>5, <3>2, <4>1, EntryType
      <4>3. Accepted(e)
        BY <1>0, <4>1, <4>2 DEF EntriesMeanwhile
      <4>4. fd_cell'[e] = fd_cell[e] /\ sock'[h] = sock[h]
        BY <1>1, <1>2, <3>2, <4>3
      <4>5. Accepted(e)'
        BY <4>3 DEF AcceptedStay
      <4>6. Accepted(EndOf(h))'
        BY <4>2, <4>5 DEF Accepted
      <4>. QED  BY <1>0, <4>1, <4>2, <4>4, <4>6 DEF EntriesMeanwhile
    <3>. QED  BY <3>1, <3>2
  <2>. QED  BY <1>6, <1>7, <2>1 DEF EntriesMeanwhile
<1>10. CellsMeanwhile'
  <2>1. ASSUME NEW e \in End, fd_cell'[e] # NoFd
        PROVE  \E h \in Fd : h = fd_cell'[e] /\ HasEntry(h)' /\ EndOf(h)' = e
    <3>1. CASE e \in {client, peer}
      BY <1>1, <1>2, <1>5, <3>1
    <3>2. CASE e \notin {client, peer}
      <4>1. PICK h \in Fd : h = fd_cell[e] /\ fd_cell'[e] = h
        BY <1>0, <1>2, <2>1, <3>2 DEF TypeOK
      <4>2. HasEntry(h) /\ EndOf(h) = e
        BY <1>0, <2>1, <4>1 DEF CellsMeanwhile
      <4>. QED  BY <1>3, <1>5, <4>1, <4>2
    <3>. QED  BY <3>1, <3>2
  <2>2. ASSUME NEW e \in End, fd_cell'[e] # NoFd
        PROVE  HasEntry(fd_cell[e])' /\ EndOf(fd_cell[e])' = e
    BY <2>1, <2>2 DEF HasEntry, EndOf
  <2>. QED  BY <2>2 DEF CellsMeanwhile
<1>11. SocketsMeanwhile'
  BY <1>0, <1>2, <1>5 DEF SocketsMeanwhile
<1>12. HeldAlive'
  <2>1. CASE recovering.at \notin Places
    BY <1>6, <2>1 DEF HeldAlive
  <2>2. CASE recovering.at \in Places
    <3>1. /\ \A i \in DOMAIN recovering.its : recovering.its[i] \in Fd
          /\ recovering.its \in Seq(Fd)
      BY <2>2, RecoveringType DEF Places
    <3>2. ASSUME NEW i \in DOMAIN recovering.its,
                 recovering.its[i] \notin recovering.dangling
          PROVE  /\ HasEntry(recovering.its[i]) /\ HasEntry(recovering.its[i])'
                 /\ EndOf(recovering.its[i])' = EndOf(recovering.its[i])
                 /\ EndOf(recovering.its[i]) \in End
                 /\ Accepted(EndOf(recovering.its[i]))
      <4>1. PICK h \in Fd : h = recovering.its[i]
        BY <3>1
      <4>2. HasEntry(h)
        BY <2>2, <3>2, <4>1 DEF TablesMeanwhile, HeldAlive
      <4>3. /\ HasEntry(h)' /\ EndOf(h)' = EndOf(h) /\ EndOf(h) \in End
            /\ Accepted(EndOf(h))
        BY <1>0, <1>3, <1>5, <4>2, EntryType DEF EntriesMeanwhile
      <4>. QED  BY <1>6, <4>1, <4>2, <4>3 DEF HasEntry, EndOf
    <3>3. ASSUME recovering.dangling = {}, Len(recovering.its) = 2
          PROVE  EndOf(recovering.its[2])' = Peer(EndOf(Closing))'
      <4>1. 1 \in DOMAIN recovering.its /\ 2 \in DOMAIN recovering.its
        BY <3>1, <3>3
      <4>2. EndOf(recovering.its[2]) = Peer(EndOf(recovering.its[1]))
        BY <2>2, <3>3 DEF TablesMeanwhile, HeldAlive, Closing
      <4>3. /\ EndOf(recovering.its[1])' = EndOf(recovering.its[1])
            /\ EndOf(recovering.its[2])' = EndOf(recovering.its[2])
        BY <3>2, <3>3, <4>1
      <4>. QED  BY <1>6, <4>2, <4>3 DEF Closing, Peer, EndOf
    <3>4. ASSUME recovering.dangling = {}, Len(recovering.its) = 1
          PROVE  fd_cell'[Peer(EndOf(Closing))'] = NoFd
      <4>1. 1 \in DOMAIN recovering.its
        BY <3>1, <3>4
      <4>2. PICK e \in End : /\ e = EndOf(recovering.its[1])
                             /\ EndOf(recovering.its[1])' = e /\ Accepted(e)
        BY <3>2, <3>4, <4>1
      <4>3. fd_cell[Peer(e)] = NoFd
        BY <2>2, <3>4, <4>2 DEF TablesMeanwhile, HeldAlive, Closing
      <4>4. Peer(e) \in End /\ Peer(e) # client /\ Peer(e) # peer
        BY <1>1, <4>2, PeerFacts DEF Accepted
      <4>5. fd_cell'[Peer(e)] = NoFd
        BY <1>2, <4>3, <4>4
      <4>6. EndOf(Closing)' = e
        BY <1>6, <4>2 DEF Closing, EndOf
      <4>. QED  BY <4>5, <4>6 DEF Peer
    <3>. QED  BY <1>6, <3>2, <3>3, <3>4 DEF HeldAlive, HasEntry, EndOf, Closing, Peer
  <2>. QED  BY <2>1, <2>2
<1>13. Paired'
  <2>1. \A h : Held(h)' <=> Held(h)
    BY <1>6 DEF Held
  <2>2. ASSUME recovering = NotRecovering \/ recovering.dangling = {},
               NEW e \in End, fd_cell'[e] = NoFd, fd_cell'[Peer(e)] # NoFd
        PROVE  recovering # NotRecovering /\ Held(fd_cell'[Peer(e)])
    <3>1. e \notin {client, peer}
      BY <1>1, <1>2, <2>2, Sentinels
    <3>2. Peer(e) \in End /\ Peer(e) \notin {client, peer}
      BY <1>1, <3>1, PeerFacts
    <3>3. fd_cell'[e] = fd_cell[e] /\ fd_cell'[Peer(e)] = fd_cell[Peer(e)]
      BY <1>2, <3>1, <3>2
    <3>. QED  BY <2>2, <3>3 DEF TablesMeanwhile, Paired
  <2>. QED  BY <1>6, <2>1, <2>2 DEF Paired
<1>. QED  BY <1>9, <1>10, <1>11, <1>12, <1>13 DEF TablesMeanwhile

LEMMA TablesLeak ==
  ASSUME ThreadsTypeOK, TablesMeanwhile, AcceptedStay, Overlap, ~overtaken',
         NEW g \in Fd, sock[g] = Free, sock' = [sock EXCEPT ![g] = Leaked],
         UNCHANGED <<fd_cell, fd_to_channel_status>>
  PROVE  TablesMeanwhile'
<1>0. TypeOK /\ EntriesMeanwhile
  BY DEF ThreadsTypeOK, TablesMeanwhile
<1>1. \A h \in Fd : sock'[h] = IF h = g THEN Leaked ELSE sock[h]
  BY <1>0 DEF TypeOK
<1>2. ~HasEntry(g)
  BY <1>0, <1>1, FreeIsEmpty, Sentinels
<1>3. SameEnds
  BY DEF SameEnds, HasEntry, EndOf
<1>4. SameSockets
  BY <1>1, <1>2, Sentinels DEF SameSockets
<1>5. recovering' = recovering
  BY <1>3, OverlapQuiet DEF SameEnds
<1>. QED  BY <1>3, <1>4, <1>5, TablesQuiet

\* Marking entries, or taking the mark from them, leaves them where they are.
LEMMA MarkSameEnds ==
  ASSUME TypeOK, NEW F \in SUBSET Fd, \A f \in F : HasEntry(f), NEW b \in BOOLEAN,
         fd_to_channel_status' = [f \in Fd |->
           IF f \in F THEN [self_fd |-> EndOf(f), disconnected |-> b]
           ELSE fd_to_channel_status[f]]
  PROVE  /\ SameEnds
         /\ fd_to_channel_status' \in
              [Fd -> [self_fd : End, disconnected : BOOLEAN] \cup {NoEntry}]
<1>1. \A f \in Fd : fd_to_channel_status'[f] =
        IF f \in F THEN [self_fd |-> EndOf(f), disconnected |-> b]
        ELSE fd_to_channel_status[f]
  OBVIOUS
<1>2. \A f \in F : EndOf(f) \in End
  BY EntryType
<1>3. \A e \in End : [self_fd |-> e, disconnected |-> b]
                      \in [self_fd : End, disconnected : BOOLEAN]
  OBVIOUS
<1>4. \A e \in End : [self_fd |-> e, disconnected |-> b] # NoEntry
  BY <1>3, Sentinels
<1>5. ASSUME NEW f \in Fd
      PROVE  (HasEntry(f)' <=> HasEntry(f)) /\ EndOf(f)' = EndOf(f)
  <2>1. CASE f \in F
    <3>1. fd_to_channel_status'[f] = [self_fd |-> EndOf(f), disconnected |-> b]
      BY <1>1, <2>1
    <3>2. fd_to_channel_status'[f] # NoEntry /\ HasEntry(f)
      BY <1>2, <1>4, <2>1, <3>1
    <3>. QED  BY <3>1, <3>2 DEF HasEntry, EndOf
  <2>2. CASE f \notin F
    BY <1>1, <2>2 DEF HasEntry, EndOf
  <2>. QED  BY <2>1, <2>2
<1>6. fd_to_channel_status' \in
        [Fd -> [self_fd : End, disconnected : BOOLEAN] \cup {NoEntry}]
  <2>1. \A f \in F : [self_fd |-> EndOf(f), disconnected |-> b]
                      \in [self_fd : End, disconnected : BOOLEAN]
    BY <1>2, <1>3
  <2>. QED  BY <2>1 DEF TypeOK
<1>. QED  BY <1>5, <1>6 DEF SameEnds

LEMMA TagSameEnds ==
  ASSUME TypeOK, NEW F \in SUBSET Fd, \A f \in F : HasEntry(f), Tag(F)
  PROVE  SameEnds
BY MarkSameEnds DEF Tag

\* recover finds the next connection to close, ...
LEMMA TablesFind ==
  ASSUME ThreadsTypeOK, ItsKept, TablesMeanwhile, AcceptedStay,
         recovering.at = "next", NEW f \in Fd, FindIts(f)
  PROVE  TablesMeanwhile'
<1>0. TypeOK /\ EntriesMeanwhile /\ CellsMeanwhile /\ SocketsMeanwhile
  BY DEF ThreadsTypeOK, TablesMeanwhile
<1>. DEFINE g == fd_cell[Peer(EndOf(f))]
            others == SetToSeq(Pair(f) \ {f})
<1>1. HasEntry(f) /\ Tag(Pair(f)) /\ EndOf(f) \in End
  BY <1>0, EntryType DEF FindIts
<1>2. /\ recovering'.at = "close" /\ recovering'.its = <<f>> \o others
      /\ recovering'.dangling = {}
  BY RecoveringType DEF FindIts, ThreadsTypeOK, NotRecovering
<1>3. /\ \A h \in Fd : fd_to_channel_status'[h] =
           IF h \in Pair(f) THEN [self_fd |-> EndOf(h), disconnected |-> TRUE]
           ELSE fd_to_channel_status[h]
      /\ sock' = sock /\ fd_cell' = fd_cell
  BY <1>1 DEF Tag
<1>4. SameEnds /\ SameSockets
  BY <1>0, <1>1, <1>3, PairType, TagSameEnds DEF SameSockets
<1>5. EntriesMeanwhile' /\ CellsMeanwhile' /\ SocketsMeanwhile'
  BY <1>0, <1>2, <1>3, <1>4, EntriesQuiet DEF Half
<1>6. Paired'
  <2>1. recovering.dangling = {} /\ \A h : ~Held(h)
    BY DEF ItsKept, Held
  <2>. QED  BY <1>3, <2>1 DEF TablesMeanwhile, Paired
<1>7. HeldAlive'
  <2>1. HasEntry(f)' /\ EndOf(f)' = EndOf(f)
    BY <1>1, <1>4 DEF SameEnds
  <2>2. Peer(EndOf(f)) \in End /\ Peer(EndOf(f)) # EndOf(f)
    BY <1>1, PeerFacts
  <2>3. CASE Pair(f) = {f} /\ others = <<>>
    <3>1. recovering'.its = <<f>>
      <4>1. recovering'.its = <<f>> \o <<>>
        BY <1>2, <2>3
      <4>2. <<f>> \o <<>> = <<f>>
        BY OneOrTwo
      <4>. QED  BY <4>1, <4>2, Zenon
    <3>2. g = NoFd
      <4>1. SUFFICES ASSUME g # NoFd PROVE FALSE
        OBVIOUS
      <4>2. g \in Fd /\ HasEntry(g) /\ EndOf(g) = Peer(EndOf(f))
        BY <1>0, <2>2, <4>1 DEF TypeOK, CellsMeanwhile
      <4>3. g \in Pair(f)
        BY <4>2 DEF Pair
      <4>. QED  BY <2>2, <2>3, <4>2, <4>3
    <3>3. fd_cell'[Peer(EndOf(Closing))'] = NoFd
      <4>1. Closing' = f
        BY <3>1 DEF Closing
      <4>2. Peer(EndOf(Closing))' = Peer(EndOf(f))
        BY <2>1, <4>1 DEF Peer, EndOf
      <4>. QED  BY <1>3, <3>2, <4>2
    <3>4. Len(recovering'.its) = 1 /\ \A i \in DOMAIN recovering'.its : recovering'.its[i] = f
      BY <3>1
    <3>5. \A i \in DOMAIN recovering'.its : HasEntry(recovering.its[i])'
      BY <2>1, <3>4 DEF HasEntry
    <3>. QED  BY <1>2, <3>3, <3>4, <3>5 DEF HeldAlive
  <2>4. CASE g \in Fd /\ g # f /\ HasEntry(g) /\ others = <<g>>
    <3>1. recovering'.its = <<f, g>>
      <4>1. recovering'.its = <<f>> \o <<g>>
        BY <1>2, <2>4
      <4>2. \A h \in Fd : <<f>> \o <<h>> = <<f, h>>
        BY OneOrTwo
      <4>. QED  BY <2>4, <4>1, <4>2
    <3>2. PICK h \in Fd : h = g
      BY <2>4
    <3>3. EndOf(h) = Peer(EndOf(f)) /\ HasEntry(h)' /\ EndOf(h)' = EndOf(h)
      <4>1. h # NoFd
        BY Sentinels
      <4>. QED  BY <1>0, <1>4, <2>2, <2>4, <3>2, <4>1 DEF CellsMeanwhile, SameEnds
    <3>4. recovering'.its[2] = h /\ Closing' = f
      BY <3>1, <3>2 DEF Closing
    <3>5. EndOf(recovering.its[2])' = Peer(EndOf(Closing))'
      BY <2>1, <3>3, <3>4 DEF Peer, EndOf
    <3>6. Len(recovering'.its) = 2
          /\ \A i \in DOMAIN recovering'.its : recovering'.its[i] \in {f, h}
      BY <3>1, <3>2
    <3>7. \A i \in DOMAIN recovering'.its : HasEntry(recovering.its[i])'
      BY <2>1, <3>3, <3>6 DEF HasEntry
    <3>. QED  BY <3>5, <3>6, <3>7 DEF HeldAlive
  <2>. QED  BY <1>0, <1>1, <2>3, <2>4, PairSeq
<1>. QED  BY <1>5, <1>6, <1>7 DEF TablesMeanwhile

\* ... closes its descriptor, ...
LEMMA TablesCloseFd ==
  ASSUME ThreadsTypeOK, ItsKept, TablesMeanwhile, AcceptedStay, CloseFd
  PROVE  TablesMeanwhile'
<1>0. TypeOK /\ EntriesMeanwhile /\ CellsMeanwhile /\ SocketsMeanwhile
  BY DEF ThreadsTypeOK, TablesMeanwhile
<1>1. /\ recovering.at = "close" /\ Closing \notin recovering.dangling
      /\ UNCHANGED <<asked, backlog, fd_cell, fd_to_channel_status>>
      /\ \A f \in Fd : sock'[f] = IF f = Closing THEN Free ELSE sock[f]
  BY DEF CloseFd, Alive, InRecover, CloseFds, kernel
<1>2. /\ recovering'.at = "clear" /\ recovering'.its = recovering.its
      /\ recovering'.dangling = recovering.dangling
  BY <1>1, RecoveringType DEF CloseFd, ThreadsTypeOK, NotRecovering
<1>3. \A f : /\ ~Half(f)
             /\ Half(f)' <=> f = Closing
  BY <1>1, <1>2 DEF Half, Closing
<1>4. EntriesMeanwhile'
  BY <1>0, <1>1, <1>2, <1>3 DEF EntriesMeanwhile, HasEntry, EndOf, Accepted, Waits
<1>5. CellsMeanwhile' /\ SocketsMeanwhile'
  BY <1>0, <1>1, Sentinels DEF CellsMeanwhile, SocketsMeanwhile, HasEntry, EndOf
<1>6. HeldAlive'
  BY <1>1, <1>2 DEF TablesMeanwhile, HeldAlive, HasEntry, EndOf, Closing, Places
<1>7. Paired'
  <2>1. recovering # NotRecovering /\ recovering' # NotRecovering
    BY <1>1, <1>2 DEF NotRecovering
  <2>. QED  BY <1>1, <1>2, <2>1 DEF TablesMeanwhile, Paired, Held
<1>. QED  BY <1>4, <1>5, <1>6, <1>7 DEF TablesMeanwhile

\* ... sets the shared integer to -1, ...
LEMMA TablesClearCell ==
  ASSUME ThreadsTypeOK, ItsKept, TablesMeanwhile, ClearCell
  PROVE  TablesMeanwhile' /\ CellsShrink
<1>0. TypeOK /\ EntriesMeanwhile /\ CellsMeanwhile /\ SocketsMeanwhile
  BY DEF ThreadsTypeOK, TablesMeanwhile
<1>1. /\ recovering.at = "clear" /\ Closing \notin recovering.dangling
      /\ UNCHANGED <<asked, backlog, sock, fd_to_channel_status>>
      /\ \A e \in End : fd_cell'[e] = IF EndOf(Closing) = e THEN NoFd ELSE fd_cell[e]
  BY DEF ClearCell, Alive, InRecover, ClearCells, kernel
<1>2. /\ recovering'.at = "erase" /\ recovering'.its = recovering.its
      /\ recovering'.dangling = recovering.dangling
  BY <1>1, RecoveringType DEF ClearCell, ThreadsTypeOK, NotRecovering
<1>3. \A f : /\ Half(f) <=> f = Closing
             /\ Half(f)' <=> f = Closing
  BY <1>1, <1>2 DEF Half, Closing
<1>4. /\ recovering.its \in Seq(Fd) /\ Len(recovering.its) \in 1 .. 2
      /\ \A i \in DOMAIN recovering.its : recovering.its[i] \in Fd
  BY <1>1, RecoveringType DEF ItsKept, Places, NotRecovering
<1>5. Closing \in Fd /\ HasEntry(Closing) /\ EndOf(Closing) \in End
  <2>1. 1 \in DOMAIN recovering.its
    BY <1>4
  <2>2. Closing \in Fd /\ HasEntry(Closing)
    BY <1>1, <1>4, <2>1 DEF Closing, TablesMeanwhile, HeldAlive, Places
  <2>. QED  BY <1>0, <2>2, EntryType
<1>6. \A f \in Fd : HasEntry(f) /\ f # Closing => EndOf(f) # EndOf(Closing)
  BY <1>0, <1>5, OneEntry
<1>7. EntriesMeanwhile'
  <2>1. ASSUME NEW f \in Fd, HasEntry(f)
        PROVE  /\ Accepted(EndOf(f))
               /\ f # Closing => sock[f] = EndOf(f) /\ fd_cell'[EndOf(f)] = f
               /\ f = Closing => sock[f] = Free /\ fd_cell'[EndOf(f)] = NoFd
    <3>1. EndOf(f) \in End
      BY <1>0, <2>1, EntryType
    <3>. QED  BY <1>0, <1>1, <1>3, <1>6, <2>1, <3>1 DEF EntriesMeanwhile
  <2>. QED  BY <1>1, <1>2, <1>3, <2>1 DEF EntriesMeanwhile, HasEntry, EndOf, Accepted, Waits
<1>8. CellsMeanwhile' /\ SocketsMeanwhile'
  BY <1>0, <1>1 DEF CellsMeanwhile, SocketsMeanwhile, HasEntry, EndOf
<1>9. CellsShrink
  BY <1>1 DEF CellsShrink
<1>10. HeldAlive'
  <2>1. \A i \in DOMAIN recovering.its :
          recovering.its[i] \notin recovering.dangling => HasEntry(recovering.its[i])
    BY <1>1 DEF TablesMeanwhile, HeldAlive, Places
  <2>2. recovering.dangling = {} /\ Len(recovering.its) = 2 =>
          EndOf(recovering.its[2]) = Peer(EndOf(Closing))
    BY <1>1 DEF TablesMeanwhile, HeldAlive, Places
  <2>3. recovering.dangling = {} /\ Len(recovering.its) = 1 =>
          fd_cell'[Peer(EndOf(Closing))] = NoFd
    BY <1>1, <1>5, PeerFacts DEF TablesMeanwhile, HeldAlive, Places
  <2>. QED  BY <1>1, <1>2, <2>1, <2>2, <2>3 DEF HeldAlive, HasEntry, EndOf, Closing
<1>11. Paired'
  <2>1. recovering # NotRecovering /\ recovering' # NotRecovering
    BY <1>1, <1>2 DEF NotRecovering
  <2>2. ASSUME recovering.dangling = {}, NEW e \in End,
               fd_cell'[e] = NoFd, fd_cell'[Peer(e)] # NoFd
        PROVE  Held(fd_cell'[Peer(e)])
    <3>1. Peer(e) \in End /\ fd_cell'[Peer(e)] = fd_cell[Peer(e)]
      BY <1>1, <2>2, PeerFacts
    <3>2. CASE fd_cell[e] = NoFd
      BY <2>2, <3>1, <3>2 DEF TablesMeanwhile, Paired
    <3>3. CASE fd_cell[e] # NoFd
      <4>1. e = EndOf(Closing)
        BY <1>1, <2>2, <3>3
      <4>2. Len(recovering.its) = 2 /\ EndOf(recovering.its[2]) = Peer(e)
        BY <1>1, <1>4, <2>2, <3>1, <4>1 DEF TablesMeanwhile, HeldAlive, Places
      <4>3. PICK g \in Fd : g = recovering.its[2]
        BY <1>4, <4>2
      <4>4. HasEntry(g) /\ g # Closing /\ EndOf(g) = Peer(e) /\ Held(g)
        BY <1>1, <1>4, <2>2, <4>2, <4>3
        DEF TablesMeanwhile, HeldAlive, ItsKept, Held, Places, Closing
      <4>5. fd_cell[EndOf(g)] = g
        BY <1>0, <1>3, <4>4 DEF EntriesMeanwhile
      <4>. QED  BY <3>1, <4>4, <4>5
    <3>. QED  BY <3>2, <3>3
  <2>3. \A h : Held(h)' <=> Held(h)
    BY <1>2 DEF Held
  <2>. QED  BY <1>2, <2>1, <2>2, <2>3 DEF Paired
<1>. QED  BY <1>7, <1>8, <1>9, <1>10, <1>11 DEF TablesMeanwhile

\* ... and erases the entry.
LEMMA TablesEraseIt ==
  ASSUME ThreadsTypeOK, ItsKept, TablesMeanwhile, EraseIt
  PROVE  TablesMeanwhile'
<1>0. TypeOK /\ EntriesMeanwhile /\ CellsMeanwhile /\ SocketsMeanwhile
  BY DEF ThreadsTypeOK, TablesMeanwhile
<1>1. /\ recovering.at = "erase" /\ Closing \notin recovering.dangling
      /\ UNCHANGED <<asked, backlog, sock, fd_cell>>
      /\ \A f \in Fd : fd_to_channel_status'[f] =
           IF f = Closing THEN NoEntry ELSE fd_to_channel_status[f]
  BY DEF EraseIt, Alive, InRecover, EraseEntries, kernel
<1>2. /\ recovering'.at = IF Len(recovering.its) = 1 THEN "next" ELSE "close"
      /\ recovering'.its = Tail(recovering.its)
      /\ recovering'.dangling = recovering.dangling
  BY <1>1, RecoveringType DEF EraseIt, ThreadsTypeOK, NotRecovering
<1>3. /\ recovering.its \in Seq(Fd) /\ Len(recovering.its) \in 1 .. 2
      /\ \A i \in DOMAIN recovering.its : recovering.its[i] \in Fd
  BY <1>1, RecoveringType DEF ItsKept, Places, NotRecovering
<1>4. Closing \in Fd /\ HasEntry(Closing) /\ EndOf(Closing) \in End
      /\ Closing = recovering.its[1] /\ 1 \in DOMAIN recovering.its
  <2>1. 1 \in DOMAIN recovering.its
    BY <1>3
  <2>2. Closing \in Fd /\ HasEntry(Closing)
    BY <1>1, <1>3, <2>1 DEF Closing, TablesMeanwhile, HeldAlive, Places
  <2>. QED  BY <1>0, <2>1, <2>2, EntryType DEF Closing
<1>5. \A f : /\ Half(f) <=> f = Closing
             /\ ~Half(f)'
  BY <1>1, <1>2 DEF Half
<1>6. \A f \in Fd : /\ HasEntry(f)' <=> HasEntry(f) /\ f # Closing
                    /\ HasEntry(f)' => EndOf(f)' = EndOf(f)
  BY <1>1 DEF HasEntry, EndOf
<1>7. sock[Closing] = Free /\ fd_cell[EndOf(Closing)] = NoFd
  BY <1>0, <1>1, <1>4, <1>5 DEF EntriesMeanwhile
<1>8. EntriesMeanwhile'
  <2>1. ASSUME NEW f \in Fd, HasEntry(f)'
        PROVE  Accepted(EndOf(f))' /\ sock'[f] = EndOf(f)' /\ fd_cell'[EndOf(f)'] = f
    <3>1. Accepted(EndOf(f)) /\ sock[f] = EndOf(f) /\ fd_cell[EndOf(f)] = f
      BY <1>0, <1>5, <1>6, <2>1 DEF EntriesMeanwhile
    <3>2. EndOf(f)' = EndOf(f)
      BY <1>6, <2>1
    <3>3. Accepted(EndOf(f))'
      BY <1>1, <3>1, <3>2 DEF Accepted, Waits
    <3>. QED  BY <1>1, <3>1, <3>2, <3>3
  <2>. QED  BY <1>5, <2>1 DEF EntriesMeanwhile
<1>9. CellsMeanwhile'
  <2>1. ASSUME NEW e \in End, fd_cell[e] # NoFd
        PROVE  HasEntry(fd_cell[e])' /\ EndOf(fd_cell[e])' = e
    <3>1. PICK f \in Fd : f = fd_cell[e] /\ HasEntry(f) /\ EndOf(f) = e
      BY <1>0, <2>1 DEF TypeOK, CellsMeanwhile
    <3>2. HasEntry(f)' /\ EndOf(f)' = e
      BY <1>6, <1>7, <2>1, <3>1
    <3>. QED  BY <1>1, <3>1, <3>2 DEF HasEntry, EndOf
  <2>. QED  BY <1>1, <2>1 DEF CellsMeanwhile, HasEntry, EndOf
<1>10. SocketsMeanwhile'
  BY <1>0, <1>1, <1>6, <1>7, Sentinels DEF SocketsMeanwhile
<1>11. CASE Len(recovering.its) = 1
  <2>1. recovering'.at = "next" /\ recovering' # NotRecovering
    BY <1>2, <1>11 DEF NotRecovering
  <2>2. HeldAlive'
    BY <2>1 DEF HeldAlive, Places
  <2>3. \A h : Held(h) => h = Closing
    BY <1>3, <1>11 DEF Held, Closing
  <2>4. Paired'
    <3>1. ASSUME recovering.dangling = {}, NEW e \in End,
                 fd_cell[e] = NoFd, fd_cell[Peer(e)] # NoFd
          PROVE  FALSE
      <4>1. Held(fd_cell[Peer(e)])
        BY <3>1 DEF TablesMeanwhile, Paired
      <4>2. fd_cell[Peer(e)] = Closing /\ EndOf(Closing) = Peer(e)
        BY <1>0, <2>3, <3>1, <4>1, PeerFacts DEF CellsMeanwhile
      <4>. QED  BY <1>7, <3>1, <4>2
    <3>. QED  BY <1>1, <1>2, <2>1, <3>1 DEF Paired
  <2>. QED  BY <1>8, <1>9, <1>10, <2>2, <2>4 DEF TablesMeanwhile
<1>12. CASE Len(recovering.its) = 2
  <2>1. PICK g \in Fd : g = recovering.its[2]
    BY <1>3, <1>12
  <2>2. /\ recovering'.at = "close" /\ recovering' # NotRecovering
        /\ recovering'.its = <<g>> /\ Closing' = g
    <3>1. recovering.its # <<>>
      BY <1>4
    <3>2. /\ Tail(recovering.its) \in Seq(Fd)
          /\ Len(Tail(recovering.its)) = 1 /\ Tail(recovering.its)[1] = g
      BY <1>3, <1>12, <2>1, <3>1, HeadTailProperties
    <3>3. Tail(recovering.its) = <<g>>
      <4>1. \A s \in Seq(Fd) : Len(s) = 1 => s = <<s[1]>>
        OBVIOUS
      <4>. QED  BY <3>2, <4>1
    <3>4. recovering'.its = <<g>>
      <4>1. recovering'.its = Tail(recovering.its)
        BY <1>2
      <4>. QED  BY <3>3, <4>1, Zenon
    <3>5. recovering'.at = "close" /\ recovering' # NotRecovering
      BY <1>2, <1>12 DEF NotRecovering
    <3>. QED  BY <3>4, <3>5 DEF Closing
  <2>3. g # Closing /\ g \in {recovering.its[i] : i \in DOMAIN recovering.its}
    BY <1>1, <1>3, <1>12, <2>1 DEF ItsKept, Places, Closing
  <2>4. g \notin recovering.dangling => HasEntry(g)'
    BY <1>1, <1>6, <2>3 DEF TablesMeanwhile, HeldAlive, Places
  <2>5. ASSUME recovering.dangling = {}
        PROVE  fd_cell'[Peer(EndOf(Closing))'] = NoFd
    <3>1. EndOf(g) = Peer(EndOf(Closing))
      BY <1>1, <1>12, <2>1, <2>5 DEF TablesMeanwhile, HeldAlive, Places
    <3>2. Peer(EndOf(g)) = EndOf(Closing)
      BY <1>4, <3>1, PeerFacts
    <3>3. EndOf(g)' = EndOf(g)
      BY <1>6, <2>4, <2>5
    <3>4. EndOf(Closing)' = EndOf(g)
      BY <2>2, <3>3 DEF EndOf
    <3>. QED  BY <1>1, <1>7, <3>2, <3>4 DEF Peer
  <2>6. HeldAlive'
    <3>1. Len(recovering'.its) = 1 /\ \A i \in DOMAIN recovering'.its : recovering'.its[i] = g
      BY <2>2
    <3>. QED  BY <1>2, <2>4, <2>5, <3>1 DEF HeldAlive, HasEntry
  <2>7. \A h : Held(h) /\ h # Closing => Held(h)'
    <3>1. \A i \in DOMAIN recovering.its : i = 1 \/ i = 2
      BY <1>3, <1>12
    <3>2. 1 \in DOMAIN recovering'.its /\ recovering'.its[1] = g
      BY <2>2
    <3>. QED  BY <1>4, <2>1, <3>1, <3>2 DEF Held
  <2>8. Paired'
    <3>1. ASSUME recovering.dangling = {}, NEW e \in End,
                 fd_cell[e] = NoFd, fd_cell[Peer(e)] # NoFd
          PROVE  Held(fd_cell[Peer(e)]) /\ fd_cell[Peer(e)] # Closing
      <4>1. Held(fd_cell[Peer(e)])
        BY <3>1 DEF TablesMeanwhile, Paired
      <4>2. EndOf(fd_cell[Peer(e)]) = Peer(e)
        BY <1>0, <3>1, PeerFacts DEF CellsMeanwhile
      <4>. QED  BY <1>7, <3>1, <4>1, <4>2
    <3>. QED  BY <1>1, <1>2, <2>2, <2>7, <3>1 DEF Paired
  <2>. QED  BY <1>8, <1>9, <1>10, <2>6, <2>8 DEF TablesMeanwhile
<1>. QED  BY <1>3, <1>11, <1>12

-----------------------------------------------------------------------------
(* The steps of the programs and of the epoll thread.                        *)

LEMMA CloseShrinks ==
  ASSUME TypeOK, NEW F, Close(F)
  PROVE  CellsShrink
BY DEF Close, ClearCells, CellsShrink, TypeOK

LEMMA ShrinkIsKeep == CellsShrink => CellsKeep
BY DEF CellsShrink, CellsKeep

LEMMA SameIsQuiet ==
  ASSUME UNCHANGED <<sock, fd_to_channel_status>>
  PROVE  SameEnds /\ SameSockets
BY DEF SameEnds, SameSockets, HasEntry, EndOf

\* Steps that at most mark entries.
LEMMA QuietStep ==
  ASSUME ThreadsInv, ThreadsTypeOK', OneAtATime', InHand', MessagesAddressed',
         ConnectedOnce', AcceptedStay, SameEnds, SameSockets,
         UNCHANGED <<fd_cell, out, recovering>>, ~overtaken' => ~overtaken
  PROVE  ThreadsInv'
<1>1. ThreadsTypeOK /\ TypeOK
  BY DEF ThreadsInv, ThreadsTypeOK
<1>2. ItsKept'
  BY DEF ThreadsInv, ItsKept, Held
<1>3. CellsKeep
  BY DEF CellsKeep
<1>4. ASSUME ~overtaken' PROVE TablesMeanwhile' /\ StrayGone'
  BY <1>1, <1>3, <1>4, TablesQuiet, StrayKeeps DEF ThreadsInv
<1>. QED  BY <1>2, <1>4 DEF ThreadsInv

\* What is left to show of a step of the epoll thread.
LEMMA EpollStep ==
  ASSUME ThreadsInv, Overlap, UNCHANGED <<delivering, waiting>>, TypeOK',
         AcceptedStay, CellsKeep, ConnectedOnce', MessagesAddressed',
         ~overtaken' => TablesMeanwhile' /\ StrayGone'
  PROVE  ThreadsInv'
<1>1. ThreadsTypeOK /\ OneAtATime /\ InHand /\ ItsKept
  BY DEF ThreadsInv
<1>2. ThreadsTypeOK'
  BY <1>1, OverlapFacts DEF ThreadsTypeOK
<1>3. OneAtATime'
  BY <1>1, OverlapFacts DEF OneAtATime
<1>4. InHand'
  BY <1>1, InHandKeeps
<1>5. ItsKept'
  <2>1. CASE recovering = NotRecovering
    BY <1>1, <2>1, OverlapFacts DEF ItsKept, Held
  <2>2. CASE recovering # NotRecovering
    <3>1. /\ recovering'.at = recovering.at /\ recovering'.its = recovering.its
          /\ recovering'.dangling = recovering.dangling \cup
               {f \in Fd : Held(f) /\ HasEntry(f) /\ ~HasEntry(f)'}
      BY <1>1, <2>2, OverlapFacts
    <3>2. \A f \in recovering'.dangling : f \in recovering.dangling \/ Held(f)
      BY <3>1
    <3>3. \A f : Held(f)' <=> Held(f)
      BY <3>1 DEF Held
    <3>4. recovering.its = <<>> => \A f : ~Held(f)
      BY DEF Held
    <3>5. recovering.at = "next" => recovering'.its = <<>> /\ recovering'.dangling = {}
      BY <1>1, <3>1, <3>2, <3>4 DEF ItsKept
    <3>. QED  BY <1>1, <3>1, <3>2, <3>3, <3>5 DEF ItsKept
  <2>. QED  BY <2>1, <2>2
<1>. QED  BY <1>2, <1>3, <1>4, <1>5 DEF ThreadsInv

\* A step of the epoll thread that leaves the tables alone.
LEMMA EpollQuiet ==
  ASSUME ThreadsInv, Overlap, TypeOK', MessagesAddressed', AcceptedStay,
         ConnectedOnce',
         UNCHANGED <<delivering, waiting, sock, fd_cell, fd_to_channel_status>>,
         ~overtaken => StrayGone'
  PROVE  ThreadsInv'
<1>1. ThreadsTypeOK
  BY DEF ThreadsInv
<1>2. CellsKeep
  BY DEF CellsKeep
<1>3. SameEnds /\ SameSockets
  BY SameIsQuiet
<1>4. recovering' = recovering /\ (~overtaken' => ~overtaken)
  BY <1>1, <1>3, OverlapQuiet, OverlapFacts DEF SameEnds
<1>5. ~overtaken' => TablesMeanwhile' /\ StrayGone'
  BY <1>1, <1>3, <1>4, TablesQuiet DEF ThreadsInv
<1>. QED  BY <1>2, <1>5, EpollStep

\* One that closes a connection.
LEMMA EpollClose ==
  ASSUME ThreadsInv, Overlap, TypeOK', NEW f \in Fd, HasEntry(f), Close(Pair(f)),
         UNCHANGED <<asked, backlog, out, network, waiting, delivering>>
  PROVE  ThreadsInv'
<1>1. ThreadsTypeOK /\ TypeOK /\ ConnectedOnce /\ MessagesAddressed
  BY DEF ThreadsInv, ThreadsTypeOK
<1>2. AcceptedStay
  BY <1>1, AcceptedStays
<1>3. CellsShrink /\ CellsKeep
  BY <1>1, CloseShrinks, ShrinkIsKeep
<1>4. ConnectedOnce' /\ MessagesAddressed'
  BY <1>1, <1>3, ShrinkKeepsConnected, MessagesSame
<1>5. ASSUME ~overtaken' PROVE TablesMeanwhile' /\ StrayGone'
  <2>1. TablesMeanwhile /\ StrayGone
    BY <1>1, <1>5, OverlapFacts DEF ThreadsInv
  <2>2. Pair(f) \in SUBSET Fd /\ PairsIn(Pair(f))
    BY <1>1, <2>1, PairIsIn DEF TablesMeanwhile
  <2>3. TablesMeanwhile'
    BY <1>1, <1>2, <2>1, <2>2, TablesClose
  <2>. QED  BY <1>1, <1>2, <1>3, <2>1, <2>3, StrayKeeps
<1>. QED  BY <1>2, <1>3, <1>4, <1>5, EpollStep

\* One that writes to the connection it means to.
LEMMA EpollWrite ==
  ASSUME ThreadsInv, Overlap, TypeOK', NEW g \in Fd, NEW item \in Item,
         WriteItem(g, item),
         ~overtaken => sock[g] \in End /\ item.from = Peer(sock[g]),
         UNCHANGED <<asked, backlog, sock, fd_cell, fd_to_channel_status, network,
                     waiting, delivering>>
  PROVE  ThreadsInv'
<1>1. ThreadsTypeOK /\ TypeOK /\ ConnectedOnce /\ MessagesAddressed
  BY DEF ThreadsInv, ThreadsTypeOK
<1>2. AcceptedStay
  BY <1>1, AcceptedStays
<1>3. ConnectedOnce' /\ MessagesAddressed'
  BY <1>1, ShrinkKeepsConnected, MessagesSame DEF CellsShrink
<1>4. ASSUME ~overtaken PROVE StrayGone'
  <2>. DEFINE to == sock[g]
  <2>1. to \in End /\ item.from = Peer(to) /\ out' = [out EXCEPT ![to] = Append(@, item)]
    BY <1>4 DEF WriteItem
  <2>2. StrayGone
    BY <1>4 DEF ThreadsInv
  <2>. HIDE DEF to
  <2>. QED  BY <1>1, <2>1, <2>2, StrayWrite
<1>. QED  BY <1>2, <1>3, <1>4, EpollQuiet

\* While no do_close is under way an entry's descriptor is its end's.
LEMMA WriteReaches ==
  ASSUME ThreadsTypeOK, TablesMeanwhile, NEW e \in End,
         fd_cell[e] # NoFd, sock[fd_cell[e]] # Free \/ recovering = NotRecovering
  PROVE  sock[fd_cell[e]] = e
<1>1. fd_cell[e] \in Fd /\ HasEntry(fd_cell[e]) /\ EndOf(fd_cell[e]) = e
  BY DEF ThreadsTypeOK, TypeOK, TablesMeanwhile, CellsMeanwhile
<1>2. ~Half(fd_cell[e])
  BY <1>1 DEF TablesMeanwhile, EntriesMeanwhile, Half, NotRecovering
<1>. QED  BY <1>1, <1>2 DEF TablesMeanwhile, EntriesMeanwhile

LEMMA ThreadsEnvironment ==
  ASSUME ThreadsInv, Environment, UNCHANGED <<delivering, inRecover>>
  PROVE  ThreadsInv'
<1>1. ThreadsTypeOK /\ TypeOK /\ ConnectedOnce /\ MessagesAddressed /\ InHand
  BY DEF ThreadsInv, ThreadsTypeOK
<1>2. UNCHANGED <<sock, fd_cell, fd_to_channel_status, out, network, waiting,
                  recovering, overtaken>>
  BY DEF Environment, ClientConnect, AppClose, AppSend, tables, buffers, inRecover
<1>3. TypeOK'
  BY <1>1, TypeStep DEF Next
<1>4. ThreadsTypeOK'
  BY <1>1, <1>2, <1>3 DEF ThreadsTypeOK
<1>5. (\E c \in Conn : ClientConnect(c)) \/ UNCHANGED <<asked, backlog>>
  BY DEF Environment, AppClose, AppSend, kernel
<1>6. AcceptedStay
  BY <1>1, <1>5, AcceptedStays
<1>7. ConnectedOnce'
  BY <1>1, <1>2, <1>5, ConnectKeeps, ShrinkKeepsConnected DEF CellsShrink
<1>8. MessagesAddressed' /\ OneAtATime'
  BY <1>1, <1>2, MessagesSame DEF OneAtATime, ThreadsInv
<1>9. InHand'
  BY <1>1, <1>2, <1>6, InHandKeeps DEF CellsKeep
<1>. QED  BY <1>2, <1>4, <1>6, <1>7, <1>8, <1>9, SameIsQuiet, QuietStep

LEMMA ThreadsAccept ==
  ASSUME ThreadsInv, Accept, Overlap, UNCHANGED delivering
  PROVE  ThreadsInv'
<1>. USE DEF kernel, tables, buffers
<1>0. PICK c \in Conn : AcceptConnect(c) \/ AcceptRefused(c) \/ AcceptLeaks(c) \/ AcceptDies(c)
  BY DEF Accept
<1>1. ThreadsTypeOK /\ TypeOK /\ ConnectedOnce /\ MessagesAddressed
  BY DEF ThreadsInv, ThreadsTypeOK
<1>2. Accepting(c) /\ UNCHANGED <<network, out, waiting>>
  BY <1>0 DEF AcceptConnect, AcceptRefused, AcceptLeaks, AcceptDies, Accepting
<1>3. TypeOK' /\ MessagesAddressed'
  BY <1>1, <1>2, TypeStep, MessagesSame DEF Next, Epoll
<1>4. Taken \/ UNCHANGED <<asked, backlog>>
  BY <1>0 DEF AcceptConnect, AcceptRefused, AcceptLeaks, AcceptDies, Accepting
<1>5. AcceptedStay
  BY <1>1, <1>2, <1>4, AcceptedStays
<1>6. CASE AcceptConnect(c)
  <2>1. PICK f \in FreeFd, g \in FreeFd : f # g /\ add_fd_to_channel(c, f, g)
    BY <1>6 DEF AcceptConnect, IsLowest
  <2>2. f \in Fd /\ g \in Fd /\ sock[f] = Free /\ sock[g] = Free
    BY DEF FreeFd
  <2>3. Waits(c)
    <3>1. backlog \in Seq(Conn) /\ backlog # <<>> /\ c = Head(backlog)
      BY <1>1, <1>2 DEF Accepting, TypeOK
    <3>2. 1 \in DOMAIN backlog /\ backlog[1] = c
      BY <3>1, HeadTailProperties
    <3>. QED  BY <3>2 DEF Waits
  <2>. DEFINE client == <<c, "client">>
              peer == <<c, "peer">>
  <2>4. /\ client \in End /\ peer \in End /\ client # peer
        /\ \A e \in End : e[1] # c => e # client /\ e # peer
        /\ client[1] = c /\ peer[1] = c
    BY DEF End, Side
  <2>5. /\ fd_cell'[client] = f /\ fd_cell'[peer] = g
        /\ \A e \in End : e[1] # c => fd_cell'[e] = fd_cell[e]
    BY <1>1, <2>1, <2>4 DEF add_fd_to_channel, TypeOK
  <2>6. ConnectedOnce'
    BY <1>1, <1>2, <1>6, <2>5, TakeKeepsConnected DEF AcceptConnect
  <2>7. CellsKeep
    BY <2>3, <2>5 DEF CellsKeep, Accepted
  <2>8. Accepted(client)' /\ Accepted(peer)'
    <3>1. fd_cell'[client] # NoFd /\ fd_cell'[peer] # NoFd
      BY <2>2, <2>5, Sentinels
    <3>. QED  BY <2>4, <2>6, <3>1 DEF ConnectedOnce, Accepted
  <2>9. ASSUME ~overtaken' PROVE TablesMeanwhile' /\ StrayGone'
    <3>1. TablesMeanwhile /\ StrayGone
      BY <1>1, <2>9, OverlapFacts DEF ThreadsInv
    <3>2. TablesMeanwhile'
      BY <1>1, <1>5, <2>1, <2>2, <2>3, <2>8, <2>9, <3>1, TablesAdd
    <3>. QED  BY <1>1, <1>2, <1>5, <2>7, <3>1, <3>2, StrayKeeps
  <2>. QED  BY <1>2, <1>3, <1>5, <2>6, <2>7, <2>9, EpollStep
<1>7. CASE AcceptLeaks(c)
  <2>1. PICK g \in FreeFd : sock' = [sock EXCEPT ![g] = Leaked]
    BY <1>7 DEF AcceptLeaks
  <2>2. g \in Fd /\ sock[g] = Free /\ UNCHANGED <<fd_cell, fd_to_channel_status>>
    BY <1>7 DEF AcceptLeaks, FreeFd
  <2>3. CellsKeep
    BY <2>2 DEF CellsKeep
  <2>4. ConnectedOnce'
    BY <1>1, <1>2, <1>7, <2>2, TakeKeepsConnected DEF AcceptLeaks
  <2>5. ASSUME ~overtaken' PROVE TablesMeanwhile' /\ StrayGone'
    <3>1. TablesMeanwhile /\ StrayGone
      BY <1>1, <2>5, OverlapFacts DEF ThreadsInv
    <3>2. TablesMeanwhile'
      BY <1>1, <1>5, <2>1, <2>2, <2>5, <3>1, TablesLeak
    <3>. QED  BY <1>1, <1>2, <1>5, <2>3, <3>1, <3>2, StrayKeeps
  <2>. QED  BY <1>2, <1>3, <1>5, <2>3, <2>4, <2>5, EpollStep
<1>8. CASE AcceptRefused(c) \/ AcceptDies(c)
  <2>1. UNCHANGED <<sock, fd_cell, fd_to_channel_status>>
    BY <1>8 DEF AcceptRefused, AcceptDies
  <2>2. ConnectedOnce'
    <3>1. CASE AcceptRefused(c)
      BY <1>1, <1>2, <2>1, <3>1, TakeKeepsConnected DEF AcceptRefused
    <3>2. CASE AcceptDies(c)
      BY <1>1, <2>1, <3>2, ShrinkKeepsConnected DEF AcceptDies, Accepting, CellsShrink
    <3>. QED  BY <1>8, <3>1, <3>2
  <2>3. ~overtaken => StrayGone'
    BY <1>1, <1>2, <1>5, <2>1, StrayKeeps DEF ThreadsInv, CellsKeep
  <2>. QED  BY <1>2, <1>3, <1>5, <2>1, <2>2, <2>3, EpollQuiet
<1>. QED  BY <1>0, <1>6, <1>7, <1>8

\* With DIRECT nothing is under way in the command thread, and a frame reaches
\* the end it is for.
LEMMA ThreadsDirect ==
  ASSUME ThreadsInv, Overlap, TypeOK', is_direct, NEW m \in Msg, m.from = Peer(m.fd),
         deliver(m),
         UNCHANGED <<asked, backlog, network, waiting, delivering>>
  PROVE  ThreadsInv'
<1>. DEFINE f == fd_cell[m.fd]
            item == [from |-> m.from, n |-> m.n, raw |-> FALSE, whole |-> TRUE]
<1>1. ThreadsTypeOK /\ TypeOK /\ ConnectedOnce /\ MessagesAddressed
  BY DEF ThreadsInv, ThreadsTypeOK
<1>2. m.fd \in End /\ item \in Item
  BY DEF Msg, Item
<1>3. recovering = NotRecovering
  BY DEF ThreadsInv, OneAtATime
<1>4. CASE DeliverBody(m)
  <2>1. f \in Fd /\ HasEntry(f) /\ WriteItem(f, item)
        /\ UNCHANGED <<sock, fd_cell, fd_to_channel_status>>
    BY <1>4 DEF DeliverBody, Deliverable, tables
  <2>2. f # NoFd
    BY <2>1, Sentinels
  <2>3. ~overtaken => sock[f] = m.fd
    BY <1>1, <1>2, <1>3, <2>2, WriteReaches DEF ThreadsInv
  <2>4. ~overtaken => sock[f] \in End /\ item.from = Peer(sock[f])
    BY <1>2, <2>3
  <2>. HIDE DEF item, f
  <2>. QED  BY <1>2, <2>1, <2>4, EpollWrite
<1>5. CASE DeliverDrop(m)
  <2>1. UNCHANGED <<out, sock, fd_cell, fd_to_channel_status>>
    BY <1>5 DEF DeliverDrop, tables
  <2>2. AcceptedStay
    BY <1>1, AcceptedStays
  <2>3. ConnectedOnce' /\ MessagesAddressed'
    BY <1>1, <2>1, ShrinkKeepsConnected, MessagesSame DEF CellsShrink
  <2>4. ~overtaken => StrayGone'
    BY <1>1, <2>1, <2>2, StrayKeeps DEF ThreadsInv, CellsKeep
  <2>. QED  BY <2>1, <2>2, <2>3, <2>4, EpollQuiet
<1>6. CASE DeliverFails(m)
  <2>1. f \in Fd /\ HasEntry(f) /\ Close(Pair(f)) /\ out' = out
    BY <1>6 DEF DeliverFails, Deliverable
  <2>. HIDE DEF f
  <2>. QED  BY <2>1, EpollClose
<1>. QED  BY <1>4, <1>5, <1>6 DEF deliver

LEMMA ThreadsReceive ==
  ASSUME ThreadsInv, NEW f \in Fd, do_receive(f), Overlap, UNCHANGED delivering
  PROVE  ThreadsInv'
<1>. USE DEF kernel, tables, buffers
<1>1. ThreadsTypeOK /\ TypeOK /\ ConnectedOnce /\ MessagesAddressed
  BY DEF ThreadsInv, ThreadsTypeOK
<1>2. HasEntry(f) /\ UNCHANGED <<asked, backlog>>
  BY DEF do_receive, ReceiveFrame, ReceiveEnd, EndsConnection, ReceiveRaw, Readable
<1>3. TypeOK'
  BY <1>1, TypeStep DEF Next, Epoll
<1>4. AcceptedStay
  BY <1>1, <1>2, AcceptedStays
<1>. DEFINE e == EndOf(f)
<1>5. e \in End /\ Peer(e) \in End /\ Peer(Peer(e)) = e /\ Next_n(f) \in Nat
  BY <1>1, <1>2, EntryType, PeerFacts DEF TypeOK, Next_n
<1>6. ASSUME UNCHANGED <<waiting, sock, fd_cell, fd_to_channel_status, out>>,
             MessagesAddressed'
      PROVE  ThreadsInv'
  <2>1. ConnectedOnce'
    BY <1>1, <1>2, <1>6, ShrinkKeepsConnected DEF CellsShrink
  <2>2. ~overtaken => StrayGone'
    BY <1>1, <1>4, <1>6, StrayKeeps DEF ThreadsInv, CellsKeep
  <2>. QED  BY <1>3, <1>4, <1>6, <2>1, <2>2, EpollQuiet
<1>7. CASE ReceiveFrame(f)
  <2>. DEFINE m == NewMsg(f)
  <2>1. m \in Msg /\ m.from = Peer(m.fd)
    BY <1>5 DEF NewMsg, Msg
  <2>2. enqueue_msg(f, m)
    BY <1>7 DEF ReceiveFrame
  <2>. HIDE DEF m
  <2>3. CASE UNCHANGED <<out, tables, buffers>>
    BY <1>1, <1>6, <2>3, MessagesSame
  <2>4. CASE is_direct /\ deliver(m) /\ UNCHANGED buffers
    BY <1>2, <1>3, <2>1, <2>4, ThreadsDirect
  <2>5. CASE BufferLast(Chan(e), m)
    <3>1. MessagesAddressed'
      BY <1>1, <1>5, <2>1, <2>5, ChanType, BufferKeeps
    <3>. QED  BY <1>6, <2>5, <3>1 DEF BufferLast
  <2>. QED  BY <2>2, <2>3, <2>4, <2>5 DEF enqueue_msg
<1>8. CASE ReceiveEnd(f)
  BY <1>2, <1>3, <1>8, EpollClose DEF ReceiveEnd
<1>9. CASE ReceiveRaw(f)
  <2>. DEFINE g == fd_cell[Peer(e)]
              item(whole) ==
                [from |-> e, n |-> Next_n(f), raw |-> TRUE, whole |-> whole]
  <2>1. UNCHANGED <<network, waiting>> /\ (PassOn(f, g) \/ PassOnFails(f, g))
    BY <1>9 DEF ReceiveRaw
  <2>2. CASE PassOn(f, g)
    <3>1. PICK whole \in BOOLEAN :
            g \in Fd /\ sock[g] \in End /\ WriteItem(g, item(whole))
            /\ UNCHANGED <<sock, fd_cell, fd_to_channel_status>>
      BY <2>2 DEF PassOn, OnConnection
    <3>2. ~overtaken => sock[g] = Peer(e)
      BY <1>1, <1>5, <3>1, Sentinels, WriteReaches DEF ThreadsInv
    <3>3. item(whole) \in Item /\ (~overtaken => item(whole).from = Peer(sock[g]))
      BY <1>5, <3>2 DEF Item
    <3>. HIDE DEF item, g
    <3>. QED  BY <1>2, <1>3, <2>1, <3>1, <3>3, EpollWrite
  <2>3. CASE PassOnFails(f, g)
    BY <1>2, <1>3, <2>1, <2>3, EpollClose DEF PassOnFails
  <2>. QED  BY <2>1, <2>2, <2>3
<1>. QED  BY <1>7, <1>8, <1>9 DEF do_receive

\* Events for descriptors that recover has closed.
LEMMA ThreadsReceiveLate ==
  ASSUME ThreadsInv, NEW f \in Fd, ReceiveClosed(f) \/ ReceiveUnknown(f), Overlap,
         UNCHANGED delivering
  PROVE  ThreadsInv'
<1>. USE DEF kernel, tables, buffers
<1>1. ThreadsTypeOK /\ TypeOK /\ ConnectedOnce /\ MessagesAddressed /\ TablesOK
  BY DEF ThreadsInv, ThreadsTypeOK, TypeOK, TablesOK
<1>2. CASE ReceiveClosed(f)
  <2>1. HasEntry(f) /\ Close(Pair(f)) /\ UNCHANGED <<kernel, sent, read, out, up, buffers>>
    BY <1>2 DEF ReceiveClosed
  <2>2. TablesOK'
    BY <1>1, <2>1, PairType, CloseType
  <2>3. TypeOK'
    BY <1>1, <2>1, <2>2 DEF TypeOK, TablesOK
  <2>. QED  BY <2>1, <2>3, EpollClose
<1>3. CASE ReceiveUnknown(f)
  <2>1. /\ ~HasEntry(f) /\ sock[f] \in End
        /\ sock' = [h \in Fd |-> IF h \in {f} THEN Free ELSE sock[h]]
        /\ UNCHANGED <<kernel, sent, read, out, up, buffers, fd_cell,
                       fd_to_channel_status, unintercepted_fd>>
    BY <1>3 DEF ReceiveUnknown, CloseFds
  <2>2. overtaken
    BY <2>1 DEF ThreadsInv, TablesMeanwhile, SocketsMeanwhile
  <2>3. TypeOK'
    BY <1>1, <2>1 DEF TypeOK
  <2>4. AcceptedStay /\ CellsKeep
    BY <1>1, <2>1, AcceptedStays DEF CellsKeep
  <2>5. ConnectedOnce' /\ MessagesAddressed'
    BY <1>1, <2>1, ShrinkKeepsConnected, MessagesSame DEF CellsShrink
  <2>6. ~overtaken' => FALSE
    BY <1>1, <2>2, OverlapFacts
  <2>. QED  BY <2>1, <2>3, <2>4, <2>5, <2>6, EpollStep
<1>. QED  BY <1>2, <1>3

LEMMA ThreadsEpoll ==
  ASSUME ThreadsInv, EpollThread, Overlap, UNCHANGED delivering
  PROVE  ThreadsInv'
BY ThreadsAccept, ThreadsReceive, ThreadsReceiveLate DEF EpollThread, Receive

-----------------------------------------------------------------------------
(* The steps of deliver_msg.                                                 *)

LEMMA HandStep ==
  ASSUME ThreadsInv, ThreadsTypeOK', MessagesAddressed', OneAtATime', InHand',
         SameEnds, UNCHANGED <<asked, backlog, sock, fd_cell, inRecover>>,
         ~overtaken => StrayGone'
  PROVE  ThreadsInv'
<1>1. ThreadsTypeOK /\ TypeOK /\ ConnectedOnce /\ UNCHANGED <<recovering, overtaken>>
  BY DEF ThreadsInv, ThreadsTypeOK, inRecover
<1>2. ItsKept'
  BY <1>1 DEF ThreadsInv, ItsKept, Held
<1>3. AcceptedStay /\ ConnectedOnce'
  BY <1>1, AcceptedStays, ShrinkKeepsConnected DEF CellsShrink
<1>4. SameSockets
  BY DEF SameSockets
<1>5. ~overtaken' => TablesMeanwhile' /\ StrayGone'
  BY <1>1, <1>3, <1>4, TablesQuiet DEF ThreadsInv
<1>. QED  BY <1>2, <1>3, <1>5 DEF ThreadsInv

\* The message in hand goes on to the next place, or out of hand.
LEMMA HandMoves ==
  ASSUME ThreadsInv, TypeOK', delivering # NotDelivering,
         UNCHANGED <<asked, backlog, fd_cell, waiting, inRecover>>,
         \/ delivering' = NotDelivering
         \/ \E p \in {"checked", "failed"} :
              delivering' = [at |-> p, msg |-> delivering.msg]
         \/ delivering' = [at |-> "loaded", msg |-> delivering.msg,
                           fd |-> fd_cell[delivering.msg.fd]]
  PROVE  ThreadsTypeOK' /\ OneAtATime' /\ InHand'
<1>1. ThreadsTypeOK /\ TypeOK /\ UNCHANGED <<recovering, overtaken>>
  BY DEF ThreadsInv, ThreadsTypeOK, inRecover
<1>2. PICK m \in Msg : m = delivering.msg /\ m.fd \in End
  BY <1>1, DeliveringType
<1>3. fd_cell[m.fd] \in Fd \cup {NoFd}
  BY <1>1, <1>2 DEF TypeOK
<1>4. m.from = Peer(m.fd) /\ Accepted(m.fd)
  BY <1>2 DEF ThreadsInv, InHand
<1>5. Accepted(m.fd)'
  BY <1>4 DEF Accepted, Waits
<1>6. OneAtATime'
  BY <1>1 DEF ThreadsInv, OneAtATime
<1>7. CASE delivering' = NotDelivering
  BY <1>1, <1>6, <1>7 DEF ThreadsTypeOK, InHand
<1>8. ASSUME NEW p \in {"checked", "failed"},
             delivering' = [at |-> p, msg |-> m]
      PROVE  ThreadsTypeOK' /\ InHand'
  BY <1>1, <1>4, <1>5, <1>8 DEF ThreadsTypeOK, InHand, Accepted, Waits
<1>9. ASSUME delivering' = [at |-> "loaded", msg |-> m, fd |-> fd_cell[m.fd]]
      PROVE  ThreadsTypeOK' /\ InHand'
  BY <1>1, <1>3, <1>4, <1>5, <1>9 DEF ThreadsTypeOK, InHand, Accepted, Waits
<1>. QED  BY <1>2, <1>6, <1>7, <1>8, <1>9

\* The message taken is for an open connection.
LEMMA ThreadsTake ==
  ASSUME ThreadsInv, Take, UNCHANGED inRecover
  PROVE  ThreadsInv'
<1>. USE DEF kernel, tables, buffers
<1>1. ThreadsTypeOK /\ TypeOK /\ ConnectedOnce /\ MessagesAddressed
      /\ UNCHANGED <<recovering, overtaken>>
  BY DEF ThreadsInv, ThreadsTypeOK, inRecover
<1>2. Dequeue /\ UNCHANGED <<asked, backlog, sock, fd_cell, fd_to_channel_status, out>>
      /\ waiting # Idle /\ waiting' = Idle
  BY DEF Take, Dequeue
<1>3. PICK m \in Msg : /\ m = HeadMsg /\ m.from = Peer(m.fd) /\ m.fd \in End
                       /\ fd_cell[m.fd] # NoFd
                       /\ delivering' = [at |-> "taken", msg |-> m]
  BY <1>1, <1>2, DequeueKeeps DEF Take, Msg
<1>4. MessagesAddressed'
  BY <1>1, <1>2, DequeueKeeps
<1>5. TypeOK'
  <2>1. network' \in [Channel -> Seq(Msg)]
    BY <1>1, <1>2, DequeueType
  <2>. QED  BY <1>1, <2>1 DEF Take, Dequeue, TypeOK
<1>6. Accepted(m.fd) /\ Accepted(m.fd)'
  BY <1>1, <1>2, <1>3 DEF ConnectedOnce, Accepted, Waits
<1>7. ThreadsTypeOK' /\ InHand'
  BY <1>1, <1>3, <1>5, <1>6 DEF ThreadsTypeOK, InHand, Accepted, Waits
<1>8. OneAtATime'
  <2>1. ~is_direct /\ recovering = NotRecovering
    BY <1>2 DEF ThreadsInv, OneAtATime
  <2>. QED  BY <1>1, <1>2, <2>1 DEF OneAtATime
<1>9. SameEnds
  BY <1>2, SameIsQuiet
<1>10. ~overtaken => StrayGone'
  BY <1>1, <1>2, AcceptedStays, StrayKeeps DEF ThreadsInv, CellsKeep
<1>. QED  BY <1>1, <1>2, <1>4, <1>7, <1>8, <1>9, <1>10, HandStep DEF inRecover

\* A step of deliver_msg that writes nothing and marks nothing.
LEMMA HandQuiet ==
  ASSUME ThreadsInv, delivering # NotDelivering, UNCHANGED <<vars, inRecover>>,
         \/ delivering' = NotDelivering
         \/ \E p \in {"checked", "failed"} :
              delivering' = [at |-> p, msg |-> delivering.msg]
         \/ delivering' = [at |-> "loaded", msg |-> delivering.msg,
                           fd |-> fd_cell[delivering.msg.fd]]
  PROVE  ThreadsInv'
<1>. USE DEF vars, kernel, tables, buffers
<1>1. ThreadsTypeOK /\ TypeOK /\ ConnectedOnce /\ MessagesAddressed
  BY DEF ThreadsInv, ThreadsTypeOK
<1>2. TypeOK'
  BY <1>1, TypeStep
<1>3. MessagesAddressed' /\ SameEnds
  BY <1>1, MessagesSame, SameIsQuiet
<1>4. ~overtaken => StrayGone'
  BY <1>1, AcceptedStays, StrayKeeps DEF ThreadsInv, CellsKeep
<1>5. ThreadsTypeOK' /\ OneAtATime' /\ InHand'
  BY <1>2, HandMoves
<1>. QED  BY <1>3, <1>4, <1>5, HandStep

\* One that writes the message in hand: to its own connection, or, if that has
\* been closed since its descriptor was loaded, to another.
LEMMA HandWrite ==
  ASSUME ThreadsInv, delivering # NotDelivering, delivering' = NotDelivering,
         UNCHANGED <<kernel, sent, read, up, tables, buffers, inRecover>>,
         NEW to \in End, NEW item \in Item, item.from = delivering.msg.from,
         out' = [out EXCEPT ![to] = Append(@, item)],
         ~overtaken => to = delivering.msg.fd \/ fd_cell[delivering.msg.fd] = NoFd
  PROVE  ThreadsInv'
<1>. USE DEF kernel, tables, buffers
<1>1. ThreadsTypeOK /\ TypeOK /\ ConnectedOnce /\ MessagesAddressed
      /\ UNCHANGED <<recovering, overtaken>>
  BY DEF ThreadsInv, ThreadsTypeOK, inRecover
<1>2. PICK m \in Msg : m = delivering.msg /\ m.fd \in End
  BY <1>1, DeliveringType
<1>3. m.from = Peer(m.fd) /\ Accepted(m.fd)
  BY <1>2 DEF ThreadsInv, InHand
<1>4. TypeOK'
  <2>. DEFINE S == Seq(Item)
  <2>1. out \in [End -> S] /\ out' = [out EXCEPT ![to] = Append(out[to], item)]
    BY <1>1 DEF TypeOK
  <2>2. \A s \in S : Append(s, item) \in S
    BY AppendProperties
  <2>. HIDE DEF S
  <2>3. out' \in [End -> S]
    BY <2>1, <2>2
  <2>4. out' \in [End -> Seq(Item)]
    BY <2>3 DEF S
  <2>. QED  BY <1>1, <2>4 DEF TypeOK
<1>5. MessagesAddressed' /\ SameEnds
  BY <1>1, MessagesSame, SameIsQuiet
<1>6. ThreadsTypeOK' /\ OneAtATime' /\ InHand'
  BY <1>4, HandMoves
<1>7. ASSUME ~overtaken PROVE StrayGone'
  <2>1. StrayGone /\ TablesMeanwhile
    BY <1>7 DEF ThreadsInv
  <2>2. recovering = NotRecovering
    BY DEF ThreadsInv, OneAtATime
  <2>3. ASSUME item.from # Peer(to)
        PROVE  fd_cell[item.from] = NoFd /\ Accepted(item.from)
    <3>1. fd_cell[m.fd] = NoFd /\ item.from = Peer(m.fd)
      BY <1>2, <1>3, <1>7, <2>3
    <3>2. /\ Peer(m.fd) \in End /\ Peer(Peer(m.fd)) = m.fd
          /\ Peer(m.fd)[1] = m.fd[1]
      BY <1>2, PeerFacts DEF Peer
    <3>3. fd_cell[Peer(m.fd)] = NoFd
      BY <1>2, <2>1, <2>2, <3>1, <3>2 DEF TablesMeanwhile, Paired
    <3>4. Accepted(Peer(m.fd))
      BY <1>3, <3>2 DEF Accepted
    <3>. QED  BY <3>1, <3>3, <3>4
  <2>. QED  BY <1>1, <2>1, <2>3, StrayWrite
<1>. QED  BY <1>5, <1>6, <1>7, HandStep

LEMMA ThreadsDelivering ==
  ASSUME ThreadsInv, Delivering, UNCHANGED inRecover
  PROVE  ThreadsInv'
<1>1. ThreadsTypeOK /\ TypeOK
  BY DEF ThreadsInv, ThreadsTypeOK
<1>. DEFINE m == delivering.msg
<1>2. \/ delivering \in {NotDelivering}
      \/ delivering \in [at : {"taken", "checked", "failed"}, msg : Msg]
      \/ delivering \in [at : {"loaded"}, msg : Msg, fd : Fd \cup {NoFd}]
  BY <1>1 DEF ThreadsTypeOK
<1>3. ASSUME NEW place, At(place), place # "out"
      PROVE  delivering.at = place /\ delivering # NotDelivering
  BY <1>3, OutOrIn DEF At
<1>4. CASE Take
  BY <1>4, ThreadsTake
<1>5. CASE LookUp
  <2>1. delivering # NotDelivering /\ delivering.at = "taken" /\ UNCHANGED vars
    BY <1>3, <1>5 DEF LookUp
  <2>2. [delivering EXCEPT !.at = "checked"] = [at |-> "checked", msg |-> m]
    BY <1>2, <2>1
  <2>3. delivering' = NotDelivering \/ delivering' = [at |-> "checked", msg |-> m]
    BY <1>5, <2>2 DEF LookUp
  <2>. QED  BY <2>1, <2>3, HandQuiet
<1>6. CASE LoadFd
  BY <1>3, <1>6, HandQuiet DEF LoadFd
<1>7. CASE EmptyBody
  <2>1. delivering # NotDelivering /\ delivering.at = "checked"
        /\ UNCHANGED <<kernel, sent, read, up, tables, buffers>>
    BY <1>3, <1>7 DEF EmptyBody
  <2>2. CASE /\ delivering' = NotDelivering
             /\ out' = [out EXCEPT ![m.fd] =
                          Append(@, [from |-> m.from, n |-> m.n, raw |-> FALSE, whole |-> TRUE])]
    <3>1. PICK to \in End, item \in Item :
            /\ to = m.fd /\ item = [from |-> m.from, n |-> m.n, raw |-> FALSE, whole |-> TRUE]
      BY <1>1, <2>1, DeliveringType DEF Item
    <3>2. out' = [out EXCEPT ![to] = Append(@, item)] /\ item.from = m.from
      BY <2>2, <3>1
    <3>. QED  BY <2>1, <2>2, <3>1, <3>2, HandWrite
  <2>3. CASE delivering' = [delivering EXCEPT !.at = "failed"] /\ out' = out
    <3>1. delivering' = [at |-> "failed", msg |-> m]
      BY <1>2, <2>1, <2>3
    <3>2. UNCHANGED vars
      BY <2>1, <2>3 DEF vars
    <3>. QED  BY <2>1, <3>1, <3>2, HandQuiet
  <2>. QED  BY <1>7, <2>2, <2>3 DEF EmptyBody
<1>8. CASE WriteDone
  <2>1. /\ delivering # NotDelivering /\ delivering.at = "loaded"
        /\ UNCHANGED <<kernel, sent, read, up, tables, buffers>>
        /\ delivering' = NotDelivering
        /\ delivering.fd \in Fd /\ sock[delivering.fd] \in End
    BY <1>3, <1>8 DEF WriteDone, OnConnection
  <2>2. PICK to \in End, item \in Item :
          /\ to = sock[delivering.fd]
          /\ item = [from |-> m.from, n |-> m.n, raw |-> FALSE, whole |-> TRUE]
    BY <1>1, <2>1, DeliveringType DEF Item
  <2>3. out' = [out EXCEPT ![to] = Append(@, item)] /\ item.from = m.from
    BY <1>8, <2>2 DEF WriteDone, WriteItem
  <2>4. m.fd \in End /\ fd_cell[m.fd] \in {delivering.fd, NoFd}
    BY <1>1, <2>1, DeliveringType DEF ThreadsInv, InHand
  <2>5. recovering = NotRecovering /\ delivering.fd # NoFd
    BY <2>1, Sentinels DEF ThreadsInv, OneAtATime
  <2>6. ~overtaken /\ fd_cell[m.fd] # NoFd => sock[fd_cell[m.fd]] = m.fd
    BY <1>1, <2>4, <2>5, WriteReaches DEF ThreadsInv
  <2>7. ~overtaken => to = m.fd \/ fd_cell[m.fd] = NoFd
    BY <2>2, <2>4, <2>6
  <2>. QED  BY <2>1, <2>3, <2>7, HandWrite
<1>9. CASE WriteFailed
  BY <1>3, <1>9, HandQuiet DEF WriteFailed
<1>10. CASE CloseOnError
  <2>. DEFINE f == fd_cell[m.fd]
  <2>1. /\ delivering # NotDelivering
        /\ UNCHANGED <<kernel, sent, read, out, up, buffers>>
        /\ IF f \in Fd /\ HasEntry(f) THEN Tag(Pair(f)) ELSE UNCHANGED tables
        /\ delivering' = NotDelivering
    BY <1>3, <1>10 DEF CloseOnError
  <2>2. CASE f \in Fd /\ HasEntry(f)
    <3>1. Tag(Pair(f)) /\ Pair(f) \in SUBSET Fd /\ \A g \in Pair(f) : HasEntry(g)
      BY <2>1, <2>2, PairType
    <3>2. TablesOK /\ SameEnds
      BY <1>1, <3>1, TagSameEnds DEF TypeOK, TablesOK
    <3>3. TablesOK'
      BY <3>1, <3>2, TagType
    <3>4. UNCHANGED <<asked, backlog, waiting, network, out, sock, fd_cell>>
      BY <2>1, <3>1 DEF kernel, buffers, Tag
    <3>5. TypeOK'
      BY <1>1, <2>1, <3>3 DEF TypeOK, TablesOK, kernel, buffers
    <3>6. ThreadsTypeOK' /\ OneAtATime' /\ InHand'
      BY <2>1, <3>4, <3>5, HandMoves
    <3>7. MessagesAddressed'
      BY <3>4, MessagesSame DEF ThreadsInv
    <3>8. ~overtaken => StrayGone'
      BY <1>1, <3>4, AcceptedStays, StrayKeeps DEF ThreadsInv, CellsKeep
    <3>. QED  BY <3>2, <3>4, <3>6, <3>7, <3>8, HandStep
  <2>3. CASE ~(f \in Fd /\ HasEntry(f))
    <3>1. UNCHANGED vars
      BY <2>1, <2>3 DEF vars
    <3>. QED  BY <2>1, <3>1, HandQuiet
  <2>. QED  BY <2>2, <2>3
<1>. QED  BY <1>4, <1>5, <1>6, <1>7, <1>8, <1>9, <1>10 DEF Delivering

-----------------------------------------------------------------------------
(* The steps of recover.                                                     *)

\* Between two do_close, and at either end of recover.
LEMMA TablesBetween ==
  ASSUME ThreadsTypeOK, ItsKept, TablesMeanwhile, AcceptedStay, SameEnds, SameSockets,
         UNCHANGED fd_cell,
         recovering.at \in {"out", "next"}, recovering'.at \in {"out", "next"}
  PROVE  TablesMeanwhile'
<1>1. EntriesMeanwhile' /\ CellsMeanwhile' /\ SocketsMeanwhile'
  BY EntriesQuiet DEF TablesMeanwhile, Half
<1>2. HeldAlive'
  BY DEF HeldAlive, Places
<1>3. \A e \in End : ~(fd_cell[e] = NoFd /\ fd_cell[Peer(e)] # NoFd)
  <2>1. CASE recovering = NotRecovering
    BY <2>1 DEF TablesMeanwhile, Paired
  <2>2. CASE recovering # NotRecovering
    <3>1. recovering.its = <<>> /\ recovering.dangling = {}
      BY <2>2, RecoveringType DEF ItsKept
    <3>2. \A f : ~Held(f)
      BY <3>1 DEF Held
    <3>. QED  BY <3>1, <3>2 DEF TablesMeanwhile, Paired
  <2>. QED  BY <2>1, <2>2
<1>4. Paired'
  BY <1>3 DEF Paired
<1>. QED  BY <1>1, <1>2, <1>4 DEF TablesMeanwhile

\* What is left to show of a step of recover.
LEMMA RecoverStep ==
  ASSUME ThreadsInv, recovering # NotRecovering, TablesOK',
         UNCHANGED <<kernel, sent, read, out, up, buffers, delivering, overtaken>>,
         recovering' \in {NotRecovering} \cup
           [at : {"next", "close", "clear", "erase"}, todo : SUBSET Fd,
            its : Seq(Fd), dangling : SUBSET Fd],
         ItsKept', CellsShrink,
         AcceptedStay /\ ~overtaken => TablesMeanwhile'
  PROVE  ThreadsInv'
<1>. USE DEF kernel, buffers
<1>1. ThreadsTypeOK /\ TypeOK /\ ConnectedOnce /\ MessagesAddressed
  BY DEF ThreadsInv, ThreadsTypeOK
<1>2. TypeOK'
  BY <1>1 DEF TypeOK, TablesOK
<1>3. ThreadsTypeOK'
  BY <1>1, <1>2 DEF ThreadsTypeOK
<1>4. OneAtATime' /\ InHand'
  BY DEF ThreadsInv, OneAtATime, InHand
<1>5. AcceptedStay /\ CellsKeep
  BY <1>1, AcceptedStays, ShrinkIsKeep
<1>6. ConnectedOnce' /\ MessagesAddressed'
  BY <1>1, ShrinkKeepsConnected, MessagesSame
<1>7. ~overtaken' => TablesMeanwhile' /\ StrayGone'
  BY <1>1, <1>5, StrayKeeps DEF ThreadsInv
<1>. QED  BY <1>3, <1>4, <1>6, <1>7 DEF ThreadsInv

\* The iterators that close_connection holds from here.
LEMMA FoundIts ==
  ASSUME TypeOK, NEW f \in Fd, HasEntry(f)
  PROVE  LET its == <<f>> \o SetToSeq(Pair(f) \ {f})
         IN  /\ its \in Seq(Fd) /\ Len(its) \in 1 .. 2
             /\ Len(its) = 2 => its[1] # its[2]
<1>. DEFINE its == <<f>> \o SetToSeq(Pair(f) \ {f})
<1>1. its = <<f>> \/ \E g \in Fd : g # f /\ its = <<f, g>>
  <2>1. CASE SetToSeq(Pair(f) \ {f}) = <<>>
    BY <2>1, OneOrTwo, Zenon
  <2>2. ASSUME NEW g \in Fd, g # f, SetToSeq(Pair(f) \ {f}) = <<g>>
        PROVE  its = <<f, g>>
    BY <2>2, OneOrTwo, Zenon
  <2>3. \/ SetToSeq(Pair(f) \ {f}) = <<>>
        \/ \E g \in Fd : g # f /\ SetToSeq(Pair(f) \ {f}) = <<g>>
    BY PairSeq
  <2>. HIDE DEF its
  <2>. QED  BY <2>1, <2>2, <2>3
<1>. HIDE DEF its
<1>2. /\ its \in Seq(Fd) /\ Len(its) \in 1 .. 2
      /\ Len(its) = 2 => its[1] # its[2]
  <2>1. <<f>> \in Seq(Fd) /\ Len(<<f>>) = 1
    OBVIOUS
  <2>2. ASSUME NEW g \in Fd
        PROVE  <<f, g>> \in Seq(Fd) /\ Len(<<f, g>>) = 2
               /\ <<f, g>>[1] = f /\ <<f, g>>[2] = g
    OBVIOUS
  <2>3. CASE its = <<f>>
    BY <2>1, <2>3
  <2>4. ASSUME NEW g \in Fd, g # f, its = <<f, g>>
        PROVE  /\ its \in Seq(Fd) /\ Len(its) \in 1 .. 2
               /\ Len(its) = 2 => its[1] # its[2]
    <3>1. its \in Seq(Fd) /\ Len(its) = 2 /\ its[1] = f /\ its[2] = g
      BY <2>2, <2>4, Zenon
    <3>. QED  BY <2>4, <3>1
  <2>. QED  BY <1>1, <2>3, <2>4
<1>. QED  BY <1>2 DEF its

LEMMA ThreadsFind ==
  ASSUME ThreadsInv, recovering.at = "next", NEW f \in Fd, FindIts(f),
         UNCHANGED <<kernel, sent, read, out, up, buffers, delivering, overtaken>>
  PROVE  ThreadsInv'
<1>1. ThreadsTypeOK /\ TypeOK /\ TablesOK /\ ItsKept
  BY DEF ThreadsInv, ThreadsTypeOK, TypeOK, TablesOK
<1>2. recovering # NotRecovering
  BY OutOrIn
<1>. DEFINE its == <<f>> \o SetToSeq(Pair(f) \ {f})
<1>3. its \in Seq(Fd) /\ Len(its) \in 1 .. 2 /\ (Len(its) = 2 => its[1] # its[2])
  BY <1>1, FoundIts DEF FindIts
<1>4. recovering' = [recovering EXCEPT !.at = "close", !.todo = @ \ {f},
                        !.its = its, !.dangling = {}]
  BY DEF FindIts
<1>. HIDE DEF its
<1>5. /\ recovering' \in [at : {"next", "close", "clear", "erase"}, todo : SUBSET Fd,
                           its : Seq(Fd), dangling : SUBSET Fd]
      /\ recovering'.at = "close" /\ recovering'.its = its
      /\ recovering'.dangling = {}
  BY <1>1, <1>2, <1>3, <1>4 DEF ThreadsTypeOK
<1>6. ItsKept'
  BY <1>3, <1>5 DEF ItsKept, Places
<1>7. Tag(Pair(f)) /\ Pair(f) \in SUBSET Fd /\ \A g \in Pair(f) : HasEntry(g)
  BY PairType DEF FindIts
<1>8. TablesOK' /\ CellsShrink
  BY <1>1, <1>7, TagType DEF Tag, CellsShrink
<1>9. AcceptedStay /\ ~overtaken => TablesMeanwhile'
  BY <1>1, TablesFind DEF ThreadsInv
<1>. QED  BY <1>2, <1>5, <1>6, <1>8, <1>9, RecoverStep

LEMMA ThreadsLookUp ==
  ASSUME ThreadsInv, LookUpNext, UNCHANGED <<delivering, overtaken>>
  PROVE  ThreadsInv'
<1>1. ThreadsTypeOK /\ TypeOK /\ TablesOK /\ ItsKept
  BY DEF ThreadsInv, ThreadsTypeOK, TypeOK, TablesOK
<1>2. recovering.at = "next" /\ UNCHANGED <<kernel, sent, read, out, up, buffers>>
  BY DEF LookUpNext, InRecover
<1>3. recovering # NotRecovering
  BY <1>2, OutOrIn
<1>4. ASSUME NEW f \in Fd, FindIts(f) PROVE ThreadsInv'
  BY <1>2, <1>4, ThreadsFind
<1>5. ASSUME NEW f \in Fd, NotFound(f) PROVE ThreadsInv'
  <2>1. /\ ~HasEntry(f) /\ UNCHANGED <<fd_cell, fd_to_channel_status, unintercepted_fd>>
        /\ sock' = [g \in Fd |-> IF g \in {f} THEN Free ELSE sock[g]]
        /\ recovering' = [recovering EXCEPT !.todo = @ \ {f}]
    BY <1>5 DEF NotFound, CloseFds
  <2>2. /\ recovering' \in [at : {"next", "close", "clear", "erase"}, todo : SUBSET Fd,
                             its : Seq(Fd), dangling : SUBSET Fd]
        /\ recovering'.at = "next" /\ recovering'.its = recovering.its
        /\ recovering'.dangling = recovering.dangling
    BY <1>1, <1>2, <1>3, <2>1 DEF ThreadsTypeOK
  <2>3. ItsKept'
    BY <1>1, <1>2, <2>2 DEF ItsKept, Places
  <2>4. TablesOK' /\ CellsShrink
    BY <1>1, <2>1 DEF TablesOK, CellsShrink
  <2>5. SameEnds /\ SameSockets
    BY <2>1, Sentinels DEF SameEnds, SameSockets, HasEntry, EndOf
  <2>6. AcceptedStay /\ ~overtaken => TablesMeanwhile'
    BY <1>1, <1>2, <2>1, <2>2, <2>5, TablesBetween DEF ThreadsInv
  <2>. QED  BY <1>2, <1>3, <2>2, <2>3, <2>4, <2>6, RecoverStep
<1>6. CASE recovering' = NotRecovering /\ UNCHANGED tables
  <2>1. ItsKept'
    BY <1>6, OutOrIn DEF ItsKept, Places
  <2>2. TablesOK' /\ CellsShrink
    BY <1>1, <1>6 DEF TablesOK, CellsShrink, tables
  <2>3. SameEnds /\ SameSockets
    BY <1>6, SameIsQuiet DEF tables
  <2>4. AcceptedStay /\ ~overtaken => TablesMeanwhile'
    BY <1>1, <1>2, <1>6, <2>3, OutOrIn, TablesBetween DEF ThreadsInv, tables
  <2>. QED  BY <1>2, <1>3, <1>6, <2>1, <2>2, <2>4, RecoverStep
<1>. QED  BY <1>4, <1>5, <1>6 DEF LookUpNext

LEMMA ThreadsCloseFd ==
  ASSUME ThreadsInv, CloseFd, UNCHANGED <<delivering, overtaken>>
  PROVE  ThreadsInv'
<1>1. ThreadsTypeOK /\ TablesOK /\ ItsKept
  BY DEF ThreadsInv, ThreadsTypeOK, TypeOK, TablesOK
<1>2. /\ recovering.at = "close"
      /\ recovering' = [recovering EXCEPT !.at = "clear"]
      /\ sock' = [f \in Fd |-> IF f \in {Closing} THEN Free ELSE sock[f]]
      /\ unintercepted_fd' = unintercepted_fd \ {Closing}
      /\ UNCHANGED <<kernel, sent, read, out, up, buffers, fd_cell, fd_to_channel_status>>
  BY DEF CloseFd, Alive, InRecover, CloseFds, EraseUnintercepted
<1>3. recovering # NotRecovering
  BY <1>2, OutOrIn
<1>4. /\ recovering' \in [at : {"next", "close", "clear", "erase"}, todo : SUBSET Fd,
                           its : Seq(Fd), dangling : SUBSET Fd]
      /\ recovering'.at = "clear" /\ recovering'.its = recovering.its
      /\ recovering'.dangling = recovering.dangling
  BY <1>1, <1>2, <1>3 DEF ThreadsTypeOK
<1>5. ItsKept'
  BY <1>1, <1>2, <1>4 DEF ItsKept, Places, Held
<1>6. TablesOK' /\ CellsShrink
  BY <1>1, <1>2 DEF TablesOK, CellsShrink
<1>7. AcceptedStay /\ ~overtaken => TablesMeanwhile'
  BY <1>1, TablesCloseFd DEF ThreadsInv
<1>. QED  BY <1>2, <1>3, <1>4, <1>5, <1>6, <1>7, RecoverStep

LEMMA ThreadsClearCell ==
  ASSUME ThreadsInv, ClearCell, UNCHANGED <<delivering, overtaken>>
  PROVE  ThreadsInv'
<1>1. ThreadsTypeOK /\ TablesOK /\ ItsKept
  BY DEF ThreadsInv, ThreadsTypeOK, TypeOK, TablesOK
<1>2. /\ recovering.at = "clear"
      /\ recovering' = [recovering EXCEPT !.at = "erase"]
      /\ fd_cell' = [e \in End |->
           IF \E f \in {Closing} : EndOf(f) = e THEN NoFd ELSE fd_cell[e]]
      /\ UNCHANGED <<kernel, sent, read, out, up, buffers, sock, fd_to_channel_status,
                     unintercepted_fd>>
  BY DEF ClearCell, Alive, InRecover, ClearCells
<1>3. recovering # NotRecovering
  BY <1>2, OutOrIn
<1>4. /\ recovering' \in [at : {"next", "close", "clear", "erase"}, todo : SUBSET Fd,
                           its : Seq(Fd), dangling : SUBSET Fd]
      /\ recovering'.at = "erase" /\ recovering'.its = recovering.its
      /\ recovering'.dangling = recovering.dangling
  BY <1>1, <1>2, <1>3 DEF ThreadsTypeOK
<1>5. ItsKept'
  BY <1>1, <1>2, <1>4 DEF ItsKept, Places, Held
<1>6. TablesOK' /\ CellsShrink
  BY <1>1, <1>2 DEF TablesOK, CellsShrink
<1>7. AcceptedStay /\ ~overtaken => TablesMeanwhile'
  BY <1>1, TablesClearCell DEF ThreadsInv
<1>. QED  BY <1>2, <1>3, <1>4, <1>5, <1>6, <1>7, RecoverStep

LEMMA ThreadsEraseIt ==
  ASSUME ThreadsInv, EraseIt, UNCHANGED <<delivering, overtaken>>
  PROVE  ThreadsInv'
<1>1. ThreadsTypeOK /\ TablesOK /\ ItsKept
  BY DEF ThreadsInv, ThreadsTypeOK, TypeOK, TablesOK
<1>2. /\ recovering.at = "erase" /\ Closing \notin recovering.dangling
      /\ recovering' = [recovering EXCEPT !.its = Tail(@),
                          !.at = IF Len(recovering.its) = 1 THEN "next" ELSE "close"]
      /\ fd_to_channel_status' = [f \in Fd |->
           IF f \in {Closing} THEN NoEntry ELSE fd_to_channel_status[f]]
      /\ UNCHANGED <<kernel, sent, read, out, up, buffers, sock, fd_cell,
                     unintercepted_fd>>
  BY DEF EraseIt, Alive, InRecover, EraseEntries
<1>3. recovering # NotRecovering
  BY <1>2, OutOrIn
<1>4. recovering.its \in Seq(Fd) /\ Len(recovering.its) \in 1 .. 2
      /\ \A f \in recovering.dangling : Held(f)
  BY <1>1, <1>2, <1>3, RecoveringType DEF ItsKept, Places
<1>. DEFINE its == Tail(recovering.its)
<1>5. /\ its \in Seq(Fd) /\ Len(its) = Len(recovering.its) - 1
      /\ \A i \in 1 .. Len(its) : its[i] = recovering.its[i + 1]
  <2>1. recovering.its # <<>>
    BY <1>4
  <2>. QED  BY <1>4, <2>1, HeadTailProperties
<1>6. recovering' = [recovering EXCEPT !.its = its,
                       !.at = IF Len(recovering.its) = 1 THEN "next" ELSE "close"]
  BY <1>2
<1>. HIDE DEF its
<1>7. /\ recovering' \in [at : {"next", "close", "clear", "erase"}, todo : SUBSET Fd,
                           its : Seq(Fd), dangling : SUBSET Fd]
      /\ recovering'.at = IF Len(recovering.its) = 1 THEN "next" ELSE "close"
      /\ recovering'.its = its
      /\ recovering'.dangling = recovering.dangling
  BY <1>1, <1>3, <1>5, <1>6 DEF ThreadsTypeOK
<1>8. ASSUME NEW f \in recovering.dangling
      PROVE  Len(recovering.its) = 2 /\ f = its[1]
  <2>1. PICK i \in DOMAIN recovering.its : recovering.its[i] = f
    BY <1>4 DEF Held
  <2>2. i \in 1 .. Len(recovering.its) /\ i # 1
    BY <1>2, <1>4, <2>1 DEF Closing
  <2>3. Len(recovering.its) = 2 /\ i = 2
    BY <1>4, <2>2
  <2>. QED  BY <1>5, <2>1, <2>3
<1>9. ItsKept'
  <2>1. CASE Len(recovering.its) = 1
    <3>1. recovering.dangling = {}
      BY <1>8, <2>1
    <3>2. its = <<>>
      BY <1>5, <2>1, EmptySeq
    <3>. QED  BY <1>7, <2>1, <3>1, <3>2 DEF ItsKept, Places
  <2>2. CASE Len(recovering.its) = 2
    <3>1. Len(its) = 1 /\ 1 \in DOMAIN its
      BY <1>5, <2>2
    <3>2. \A f \in recovering.dangling : Held(f)'
      BY <1>7, <1>8, <3>1 DEF Held
    <3>. QED  BY <1>7, <2>2, <3>1, <3>2 DEF ItsKept, Places
  <2>. QED  BY <1>4, <2>1, <2>2
<1>10. TablesOK' /\ CellsShrink
  BY <1>1, <1>2 DEF TablesOK, CellsShrink
<1>11. AcceptedStay /\ ~overtaken => TablesMeanwhile'
  BY <1>1, TablesEraseIt DEF ThreadsInv
<1>. QED  BY <1>2, <1>3, <1>7, <1>9, <1>10, <1>11, RecoverStep

LEMMA ThreadsUseErased ==
  ASSUME ThreadsInv, UseErased, UNCHANGED <<delivering, overtaken>>
  PROVE  ThreadsInv'
<1>. USE DEF kernel, tables, buffers
<1>1. ThreadsTypeOK /\ TypeOK /\ ConnectedOnce /\ MessagesAddressed
  BY DEF ThreadsInv, ThreadsTypeOK
<1>2. /\ UNCHANGED <<asked, backlog, listen_event, sent, read, out, buffers, tables,
                     recovering>>
      /\ up' = FALSE
  BY DEF UseErased
<1>3. TypeOK'
  BY <1>1, <1>2 DEF TypeOK
<1>4. ThreadsTypeOK' /\ OneAtATime' /\ InHand'
  BY <1>1, <1>2, <1>3 DEF ThreadsTypeOK, ThreadsInv, OneAtATime, InHand, Accepted, Waits
<1>5. AcceptedStay /\ ConnectedOnce' /\ MessagesAddressed'
  BY <1>1, <1>2, AcceptedStays, ShrinkKeepsConnected, MessagesSame DEF CellsShrink
<1>6. SameEnds /\ SameSockets
  BY <1>2, SameIsQuiet
<1>. QED  BY <1>2, <1>4, <1>5, <1>6, QuietStep

LEMMA ThreadsRecovering ==
  ASSUME ThreadsInv, Recovering, UNCHANGED <<delivering, overtaken>>
  PROVE  ThreadsInv'
BY ThreadsLookUp, ThreadsCloseFd, ThreadsClearCell, ThreadsEraseIt, ThreadsUseErased
DEF Recovering

-----------------------------------------------------------------------------
(* The other commands.                                                       *)

\* A command that is one step of the program, and at most marks entries.
LEMMA CommandQuiet ==
  ASSUME ThreadsInv, Next, delivering = NotDelivering, recovering = NotRecovering,
         UNCHANGED <<delivering, recovering, overtaken, asked, backlog, sock, fd_cell, out>>,
         SameEnds, MessagesAddressed', waiting' # Idle => ~is_direct
  PROVE  ThreadsInv'
<1>1. ThreadsTypeOK /\ TypeOK /\ ConnectedOnce
  BY DEF ThreadsInv, ThreadsTypeOK
<1>2. TypeOK'
  BY <1>1, TypeStep
<1>3. ThreadsTypeOK' /\ OneAtATime' /\ InHand'
  BY <1>1, <1>2 DEF ThreadsTypeOK, OneAtATime, InHand
<1>4. AcceptedStay /\ ConnectedOnce'
  BY <1>1, AcceptedStays, ShrinkKeepsConnected DEF CellsShrink
<1>5. SameSockets
  BY DEF SameSockets
<1>. QED  BY <1>3, <1>4, <1>5, QuietStep

LEMMA ThreadsCollect ==
  ASSUME ThreadsInv, NEW node \in Node, Collect(node), delivering = NotDelivering,
         recovering = NotRecovering, UNCHANGED <<delivering, overtaken>>
  PROVE  ThreadsInv'
<1>. USE DEF kernel
<1>1. ThreadsTypeOK /\ TypeOK /\ ConnectedOnce /\ MessagesAddressed /\ ItsKept
  BY DEF ThreadsInv, ThreadsTypeOK
<1>. DEFINE mine == EntriesOf(node)
            cleared == {Chan(EndOf(f)) : f \in mine}
            S == Seq(Msg)
<1>2. mine \in SUBSET Fd /\ \A f \in mine : HasEntry(f)
  BY DEF EntriesOf
<1>3. /\ ~is_direct /\ waiting = Idle
      /\ fd_to_channel_status' = [f \in Fd |->
            IF f \in mine THEN [self_fd |-> EndOf(f), disconnected |-> FALSE]
                          ELSE fd_to_channel_status[f]]
      /\ network' = [ch \in Channel |->
                        IF ch \in cleared THEN <<>> ELSE network[ch]]
      /\ recovering' = [at |-> "next", todo |-> mine, its |-> <<>>, dangling |-> {}]
      /\ UNCHANGED <<kernel, sent, read, out, up, channels, waiting, sock,
                     fd_cell, unintercepted_fd>>
  BY DEF Collect, Commanding
<1>. HIDE DEF mine, cleared
<1>4. /\ SameEnds
      /\ fd_to_channel_status' \in
           [Fd -> [self_fd : End, disconnected : BOOLEAN] \cup {NoEntry}]
  BY <1>1, <1>2, <1>3, MarkSameEnds
<1>5. network' \in [Channel -> Seq(Msg)]
  <2>1. <<>> \in S /\ network \in [Channel -> S]
    BY <1>1, EmptySeq DEF TypeOK
  <2>. HIDE DEF S
  <2>2. network' \in [Channel -> S]
    BY <1>3, <2>1
  <2>. QED  BY <2>2 DEF S
<1>6. TypeOK'
  BY <1>1, <1>3, <1>4, <1>5 DEF TypeOK
<1>7. <<>> \in Seq(Fd)
  BY EmptySeq
<1>8. /\ recovering' \in [at : {"next", "close", "clear", "erase"}, todo : SUBSET Fd,
                           its : Seq(Fd), dangling : SUBSET Fd]
      /\ recovering'.at = "next" /\ recovering'.its = <<>> /\ recovering'.dangling = {}
  BY <1>2, <1>3, <1>7
<1>9. ThreadsTypeOK'
  BY <1>1, <1>6, <1>8 DEF ThreadsTypeOK
<1>10. OneAtATime' /\ InHand' /\ ItsKept'
  BY <1>3, <1>8 DEF OneAtATime, InHand, ItsKept, Places
<1>11. AcceptedStay /\ ConnectedOnce' /\ CellsKeep
  BY <1>1, <1>3, AcceptedStays, ShrinkKeepsConnected DEF CellsShrink, CellsKeep
<1>12. MessagesAddressed'
  <2>1. \A ch \in Channel : network'[ch] = <<>> \/ network'[ch] = network[ch]
    BY <1>3
  <2>. QED  BY <1>1, <2>1 DEF MessagesAddressed
<1>13. SameSockets
  BY <1>3 DEF SameSockets
<1>14. ~overtaken' => TablesMeanwhile' /\ StrayGone'
  BY <1>1, <1>3, <1>4, <1>8, <1>11, <1>13, OutOrIn, TablesBetween, StrayKeeps
  DEF ThreadsInv
<1>. QED  BY <1>9, <1>10, <1>11, <1>12, <1>14 DEF ThreadsInv

LEMMA ThreadsOther ==
  ASSUME ThreadsInv, OtherCommands
  PROVE  ThreadsInv'
<1>. USE DEF kernel, tables, buffers
<1>1. ThreadsTypeOK /\ TypeOK /\ MessagesAddressed /\ OneAtATime
      /\ delivering = NotDelivering /\ recovering = NotRecovering
      /\ UNCHANGED <<delivering, overtaken>>
  BY DEF ThreadsInv, ThreadsTypeOK, OtherCommands
<1>2. ASSUME NEW ch \in Channel, DeliverCmd(ch), UNCHANGED recovering
      PROVE  ThreadsInv'
  <2>1. Next
    BY <1>2 DEF Next, Commands
  <2>2. UNCHANGED <<asked, backlog, sock, fd_cell, fd_to_channel_status, out, network>>
        /\ ~is_direct
    BY <1>2 DEF DeliverCmd, Commanding
  <2>. QED  BY <1>1, <1>2, <2>1, <2>2, SameIsQuiet, MessagesSame, CommandQuiet
<1>3. CASE DequeueDead /\ UNCHANGED recovering
  <2>1. Next
    BY <1>3 DEF Next, Commands, Delivery
  <2>2. UNCHANGED <<asked, backlog, sock, fd_cell, fd_to_channel_status, out, waiting>>
        /\ Dequeue
    BY <1>3 DEF DequeueDead, Dequeue
  <2>3. MessagesAddressed'
    BY <1>1, <2>2, DequeueKeeps
  <2>. QED  BY <1>1, <1>3, <2>1, <2>2, <2>3, SameIsQuiet, CommandQuiet DEF OneAtATime
<1>4. CASE DeliverTimeout /\ UNCHANGED recovering
  <2>1. Next
    BY <1>4 DEF Next, Commands, Delivery
  <2>2. UNCHANGED <<asked, backlog, sock, fd_cell, fd_to_channel_status, out, network>>
        /\ waiting' = Idle
    BY <1>4 DEF DeliverTimeout
  <2>. QED  BY <1>1, <1>4, <2>1, <2>2, SameIsQuiet, MessagesSame, CommandQuiet
<1>5. ASSUME NEW node \in Node, partition(node), UNCHANGED recovering
      PROVE  ThreadsInv'
  <2>1. Next
    BY <1>5 DEF Next, Commands
  <2>2. Tag(PairsOf(node)) /\ UNCHANGED <<asked, backlog, out, network, waiting>>
    BY <1>5 DEF partition
  <2>3. PairsOf(node) \in SUBSET Fd /\ \A f \in PairsOf(node) : HasEntry(f)
    BY PairType DEF PairsOf, EntriesOf
  <2>4. SameEnds /\ UNCHANGED <<sock, fd_cell>>
    BY <1>1, <2>2, <2>3, TagSameEnds DEF Tag
  <2>. QED  BY <1>1, <1>5, <2>1, <2>2, <2>4, MessagesSame, CommandQuiet DEF OneAtATime
<1>6. CASE print_status /\ UNCHANGED recovering
  <2>1. Next
    BY <1>6 DEF Next, Commands
  <2>2. UNCHANGED <<asked, backlog, sock, fd_cell, fd_to_channel_status, out, network,
                    waiting>>
    BY <1>6 DEF print_status
  <2>. QED  BY <1>1, <1>6, <2>1, <2>2, SameIsQuiet, MessagesSame, CommandQuiet
            DEF OneAtATime
<1>7. ASSUME NEW node \in Node, Collect(node) PROVE ThreadsInv'
  BY <1>1, <1>7, ThreadsCollect
<1>. QED  BY <1>2, <1>3, <1>4, <1>5, <1>6, <1>7 DEF OtherCommands

-----------------------------------------------------------------------------
(* The invariant.                                                            *)

LEMMA ThreadsStart == ThreadsInit => ThreadsInv
<1>. SUFFICES ASSUME ThreadsInit PROVE ThreadsInv
  OBVIOUS
<1>1. Init /\ delivering = NotDelivering /\ recovering = NotRecovering
      /\ overtaken = FALSE
  BY DEF ThreadsInit
<1>2. Inv
  BY <1>1, InvInit
<1>3. ThreadsTypeOK /\ ConnectedOnce /\ MessagesAddressed
  BY <1>1, <1>2 DEF Inv, ThreadsTypeOK
<1>4. OneAtATime /\ InHand /\ ItsKept
  BY <1>1, OutOrIn DEF Init, OneAtATime, InHand, ItsKept, Places
<1>5. \A f \in Fd : ~HasEntry(f) /\ sock[f] \notin End
  BY <1>1, Sentinels DEF Init, HasEntry
<1>6. \A e \in End : fd_cell[e] = NoFd /\ Peer(e) \in End /\ out[e] = <<>>
  BY <1>1, PeerFacts DEF Init
<1>7. TablesMeanwhile
  BY <1>1, <1>5, <1>6, OutOrIn
  DEF TablesMeanwhile, EntriesMeanwhile, CellsMeanwhile, SocketsMeanwhile, HeldAlive,
      Paired, Places
<1>8. StrayGone
  BY <1>6 DEF StrayGone
<1>. QED  BY <1>3, <1>4, <1>7, <1>8 DEF ThreadsInv

LEMMA ThreadsStep == ThreadsInv /\ [ThreadsNext]_threadVars => ThreadsInv'
<1>. SUFFICES ASSUME ThreadsInv, [ThreadsNext]_threadVars PROVE ThreadsInv'
  OBVIOUS
<1>1. CASE Environment /\ UNCHANGED <<delivering, inRecover>>
  BY <1>1, ThreadsEnvironment
<1>2. CASE EpollThread /\ Overlap /\ UNCHANGED delivering
  BY <1>2, ThreadsEpoll
<1>3. CASE Delivering /\ UNCHANGED inRecover
  BY <1>3, ThreadsDelivering
<1>4. CASE Recovering /\ UNCHANGED <<delivering, overtaken>>
  BY <1>4, ThreadsRecovering
<1>5. CASE OtherCommands
  BY <1>5, ThreadsOther
<1>6. CASE UNCHANGED threadVars
  <2>1. UNCHANGED <<vars, delivering, recovering, overtaken>>
    BY <1>6 DEF threadVars
  <2>2. ThreadsTypeOK /\ TypeOK /\ ConnectedOnce /\ MessagesAddressed
    BY DEF ThreadsInv, ThreadsTypeOK
  <2>3. TypeOK'
    BY <2>1, <2>2, TypeStep
  <2>4. UNCHANGED <<asked, backlog, sock, fd_cell, fd_to_channel_status, out, network,
                    waiting>>
    BY <2>1 DEF vars, kernel, tables, buffers
  <2>5. ThreadsTypeOK' /\ OneAtATime' /\ InHand'
    BY <2>1, <2>2, <2>3, <2>4
    DEF ThreadsTypeOK, ThreadsInv, OneAtATime, InHand, Accepted, Waits
  <2>6. AcceptedStay /\ ConnectedOnce' /\ MessagesAddressed'
    BY <2>2, <2>4, AcceptedStays, ShrinkKeepsConnected, MessagesSame DEF CellsShrink
  <2>. QED  BY <2>1, <2>4, <2>5, <2>6, SameIsQuiet, QuietStep
<1>. QED  BY <1>1, <1>2, <1>3, <1>4, <1>5, <1>6 DEF ThreadsNext

\* The inductive invariant of the two threads: the tables agree but for the one
\* entry that do_close is in, the iterators recover holds lead to entries that
\* are there or have been erased under it, and a descriptor that deliver_msg
\* has loaded is its message's as long as that connection is open.
THEOREM ThreadsInvariance == ThreadsSpec => []ThreadsInv
BY ThreadsStart, ThreadsStep, PTL DEF ThreadsSpec

\* Every variable keeps its type, wherever in deliver_msg and recover the other
\* thread comes in between.
THEOREM ThreadsTypeCorrect == ThreadsSpec => []ThreadsTypeOK
<1>1. ThreadsInv => ThreadsTypeOK
  BY DEF ThreadsInv
<1>. QED  BY ThreadsInvariance, <1>1, PTL

\* Between two do_close of recover, and when no recover is under way, the
\* descriptors, the shared integers and the entries agree, although both threads
\* change them without a lock; the one thing that breaks it is an accept on the
\* descriptor that do_close has closed and not yet erased (do_accept_connect).
THEOREM SettledTables == ThreadsSpec => []TablesSettle
<1>1. ThreadsInv => TablesSettle
  <2>1. SUFFICES ASSUME ThreadsInv, recovering.at \in {"out", "next"}, ~overtaken
                 PROVE  DescriptorsConsistent
    BY DEF TablesSettle
  <2>2. TablesMeanwhile /\ \A f : ~Half(f)
    BY <2>1 DEF ThreadsInv, Half
  <2>. QED  BY <2>2 DEF TablesMeanwhile, EntriesMeanwhile, CellsMeanwhile,
                        SocketsMeanwhile, DescriptorsConsistent
<1>. QED  BY ThreadsInvariance, <1>1, PTL

\* A frame that deliver_msg writes to a connection it does not belong to comes
\* from one that the epoll thread has closed meanwhile: two open connections
\* never exchange frames, unless do_close was overtaken.
THEOREM OnlyClosedStray == ThreadsSpec => []StrayFromClosed
<1>1. ThreadsInv => StrayFromClosed
  BY DEF ThreadsInv, StrayGone, StrayFromClosed
<1>. QED  BY ThreadsInvariance, <1>1, PTL

-----------------------------------------------------------------------------
(* What flows between the two ends while both threads are at work.  Nothing  *)
(* is said once do_close has been overtaken: a connection may then have an   *)
(* entry at one end only, or lead to another's.                              *)

\* The frames of p among the items s an end has received.
OwnIn(s, p) == {i \in DOMAIN s : ~s[i].raw /\ s[i].from = p}
OrderIn(s, p) == \A i \in OwnIn(s, p) : s[i].n = Cardinality({j \in OwnIn(s, p) : j <= i})
OwnCount(e) == Cardinality(OwnIn(out[e], Peer(e)))

\* The entry f is marked disconnected, or recover is about to close it.
Cut(f) ==
  \/ Disconnected(f)
  \/ recovering # NotRecovering /\ (f \in recovering.todo \/ Held(f))

\* Both ends of e's connection are open and neither is cut.
Flowing(e) ==
  /\ fd_cell[e] # NoFd /\ ~Cut(fd_cell[e])
  /\ fd_cell[Peer(e)] # NoFd /\ ~Cut(fd_cell[Peer(e)])

\* If one end of an open connection is disconnected, the other is so too or
\* about to be closed: recover takes the mark from one of them only.
TagsTogether ==
  \A e \in End :
    fd_cell[e] # NoFd /\ fd_cell[Peer(e)] # NoFd /\ Disconnected(fd_cell[e]) =>
      Cut(fd_cell[Peer(e)])

\* A connection that has not been accepted carries nothing.
FreshEmpty ==
  \A e \in End : ~Accepted(e) => read[e] = 0 /\ out[e] = <<>>

\* A message waits on the channel it was read from; with DIRECT none waits.
OwnChannel ==
  \A ch \in Channel : \A i \in DOMAIN network[ch] :
    /\ Accepted(network[ch][i].fd)
    /\ Chan(network[ch][i].from) = ch
    /\ ~is_direct

\* What is still to be delivered to e: the message in hand before the buffer.
InHandFor(e) == delivering # NotDelivering /\ delivering.msg.fd = e
Pending(e) ==
  IF InHandFor(e) THEN <<delivering.msg>> \o Buffered(e) ELSE Buffered(e)

\* The frames for e are numbered from 1 to last without a gap: e has received
\* the first of them, the others are pending in order.
InFlight(e) ==
  \E last \in 0 .. read[Peer(e)] :
    /\ fd_cell[Peer(e)] \notin unintercepted_fd => last = read[Peer(e)]
    /\ OwnCount(e) <= last
    /\ NumbersFor(Pending(e), e) = (OwnCount(e) + 1) .. last
    /\ InOrderFor(Pending(e), e)

FramesFollow == \A e \in End : Flowing(e) => InFlight(e)

\* A message that has been found deliverable is its end's next, and stays it
\* whatever the epoll thread does.
HandNext ==
  delivering # NotDelivering /\ delivering.at \in {"checked", "loaded"} =>
    delivering.msg.n = OwnCount(delivering.msg.fd) + 1

OwnOrdered == \A e \in End : OrderIn(out[e], Peer(e))

FlowMeanwhile ==
  /\ TagsTogether /\ FreshEmpty /\ OwnChannel
  /\ FramesFollow /\ HandNext /\ OwnOrdered

ThreadsFlowInv == ThreadsInv /\ (~overtaken => FlowMeanwhile)

LEMMA OwnCounts ==
  ASSUME NEW s \in Seq(Item), NEW item \in Item, NEW p
  PROVE  /\ Cardinality(OwnIn(s, p)) \in Nat
         /\ Cardinality(OwnIn(Append(s, item), p)) =
              Cardinality(OwnIn(s, p)) + (IF ~item.raw /\ item.from = p THEN 1 ELSE 0)
         /\ /\ OrderIn(s, p)
            /\ ~item.raw /\ item.from = p => item.n = Cardinality(OwnIn(s, p)) + 1
            => OrderIn(Append(s, item), p)
<1>. DEFINE t == Append(s, item)
            own == OwnIn(s, p)
            k == Cardinality(OwnIn(s, p))
<1>1. /\ DOMAIN s = 1 .. Len(s) /\ Len(s) \in Nat /\ DOMAIN t = 1 .. (Len(s) + 1)
      /\ \A i \in 1 .. Len(s) : t[i] = s[i]
      /\ t[Len(s) + 1] = item
  BY AppendProperties
<1>. HIDE DEF t
<1>2. own \subseteq 1 .. Len(s) /\ IsFiniteSet(own) /\ k \in Nat
  <2>1. own \subseteq 1 .. Len(s)
    BY <1>1 DEF OwnIn
  <2>2. IsFiniteSet(own)
    <3>1. IsFiniteSet(1 .. Len(s))
      BY <1>1, FS_Interval
    <3>. QED  BY <2>1, <3>1, FS_Subset
  <2>. QED  BY <2>1, <2>2, FS_CardinalityType
<1>3. CASE ~(~item.raw /\ item.from = p)
  <2>1. OwnIn(t, p) = own
    BY <1>1, <1>3 DEF OwnIn
  <2>2. \A i \in own : t[i] = s[i]
    BY <1>1, <1>2
  <2>3. OrderIn(s, p) => OrderIn(t, p)
    BY <2>1, <2>2 DEF OrderIn
  <2>. QED  BY <1>2, <1>3, <2>1, <2>3 DEF t
<1>4. CASE ~item.raw /\ item.from = p
  <2>1. OwnIn(t, p) = own \cup {Len(s) + 1} /\ Len(s) + 1 \notin own
    BY <1>1, <1>2, <1>4 DEF OwnIn
  <2>2. Cardinality(OwnIn(t, p)) = k + 1
    BY <1>2, <2>1, FS_AddElement
  <2>3. ASSUME OrderIn(s, p), item.n = k + 1, NEW i \in OwnIn(t, p)
        PROVE  t[i].n = Cardinality({j \in OwnIn(t, p) : j <= i})
    <3>1. CASE i \in own
      <4>1. {j \in OwnIn(t, p) : j <= i} = {j \in own : j <= i}
        BY <1>1, <1>2, <2>1, <3>1
      <4>. QED  BY <1>1, <1>2, <2>3, <3>1, <4>1 DEF OrderIn
    <3>2. CASE i = Len(s) + 1
      <4>1. {j \in OwnIn(t, p) : j <= i} = OwnIn(t, p)
        BY <1>1, <1>2, <2>1, <3>2
      <4>. QED  BY <1>1, <2>2, <2>3, <3>2, <4>1
    <3>. QED  BY <2>1, <2>3, <3>1, <3>2
  <2>4. OrderIn(s, p) /\ item.n = k + 1 => OrderIn(t, p)
    BY <2>3 DEF OrderIn
  <2>. QED  BY <1>2, <1>4, <2>2, <2>4 DEF t
<1>. QED  BY <1>3, <1>4

LEMMA CountType ==
  ASSUME TypeOK, NEW e \in End
  PROVE  OwnCount(e) \in Nat /\ out[e] \in Seq(Item) /\ read[Peer(e)] \in Nat
<1>1. out[e] \in Seq(Item) /\ Peer(e) \in End
  BY PeerFacts DEF TypeOK
<1>2. PICK item \in Item : item = [from |-> e, n |-> 0, raw |-> TRUE, whole |-> TRUE]
  BY DEF Item
<1>3. OwnCount(e) \in Nat
  BY <1>1, <1>2, OwnCounts DEF OwnCount
<1>. QED  BY <1>1, <1>3 DEF TypeOK

\* An item is written to end to.
LEMMA OwnWrite ==
  ASSUME TypeOK, NEW to \in End, NEW item \in Item, OwnOrdered,
         out' = [out EXCEPT ![to] = Append(@, item)],
         ~item.raw /\ item.from = Peer(to) => item.n = OwnCount(to) + 1
  PROVE  /\ OwnOrdered'
         /\ \A e \in End : out'[e] # out[e] => e = to
         /\ \A e \in End : OwnCount(e)' = OwnCount(e)
              + (IF e = to /\ ~item.raw /\ item.from = Peer(e) THEN 1 ELSE 0)
<1>1. \A e \in End : out'[e] = IF e = to THEN Append(out[e], item) ELSE out[e]
  BY DEF TypeOK
<1>2. ASSUME NEW e \in End
      PROVE  /\ OrderIn(out'[e], Peer(e))
             /\ OwnCount(e)' = OwnCount(e)
                  + (IF e = to /\ ~item.raw /\ item.from = Peer(e) THEN 1 ELSE 0)
  <2>1. OwnCount(e) \in Nat /\ out[e] \in Seq(Item) /\ OrderIn(out[e], Peer(e))
    BY CountType DEF OwnOrdered
  <2>2. CASE e = to
    BY <1>1, <2>1, <2>2, OwnCounts DEF OwnCount
  <2>3. CASE e # to
    BY <1>1, <2>1, <2>3 DEF OwnCount
  <2>. QED  BY <2>2, <2>3
<1>. QED  BY <1>1, <1>2 DEF OwnOrdered

\* Nothing is opened, and what is cut stays so for as long as it has an entry.
NoneOpened == \A e \in End : fd_cell'[e] \in {fd_cell[e], NoFd}
CutStays == \A f \in Fd : HasEntry(f) /\ HasEntry(f)' /\ Cut(f) => Cut(f)'

LEMMA CutEntries ==
  ASSUME \A f \in Fd : HasEntry(f) /\ HasEntry(f)' => Disconnected(f)' = Disconnected(f),
         \/ recovering' = recovering
         \/ /\ recovering' # NotRecovering
            /\ recovering'.todo = recovering.todo /\ recovering'.its = recovering.its
  PROVE  CutStays
BY DEF CutStays, Cut, Held

\* An open end after the step was open before it, with the same entry.
LEMMA StillOpen ==
  ASSUME ThreadsTypeOK, ThreadsTypeOK', CellsMeanwhile, CellsMeanwhile', NoneOpened,
         NEW e \in End, fd_cell'[e] # NoFd
  PROVE  /\ fd_cell'[e] = fd_cell[e] /\ fd_cell[e] # NoFd /\ fd_cell[e] \in Fd
         /\ HasEntry(fd_cell[e]) /\ HasEntry(fd_cell[e])'
<1>1. fd_cell'[e] = fd_cell[e]
  BY DEF NoneOpened
<1>2. PICK f \in Fd : f = fd_cell[e] /\ fd_cell'[e] = f
  BY <1>1 DEF ThreadsTypeOK, TypeOK
<1>3. HasEntry(f)
  BY <1>1, <1>2 DEF CellsMeanwhile
<1>4. HasEntry(f)'
  BY <1>2 DEF CellsMeanwhile, HasEntry
<1>. QED  BY <1>1, <1>2, <1>3, <1>4 DEF HasEntry

LEMMA StillFlowing ==
  ASSUME ThreadsTypeOK, ThreadsTypeOK', CellsMeanwhile, CellsMeanwhile', NoneOpened,
         CutStays, NEW e \in End, Flowing(e)'
  PROVE  /\ Flowing(e) /\ fd_cell'[e] = fd_cell[e]
         /\ fd_cell'[Peer(e)] = fd_cell[Peer(e)]
<1>1. Peer(e) \in End
  BY PeerFacts
<1>2. /\ fd_cell'[e] # NoFd /\ fd_cell'[Peer(e)] # NoFd
      /\ ~Cut(fd_cell[e])' /\ ~Cut(fd_cell[Peer(e)])'
  BY DEF Flowing
<1>3. /\ fd_cell'[e] = fd_cell[e] /\ fd_cell[e] # NoFd /\ fd_cell[e] \in Fd
      /\ HasEntry(fd_cell[e]) /\ HasEntry(fd_cell[e])'
  BY <1>2, StillOpen
<1>4. /\ fd_cell'[Peer(e)] = fd_cell[Peer(e)] /\ fd_cell[Peer(e)] # NoFd
      /\ fd_cell[Peer(e)] \in Fd
      /\ HasEntry(fd_cell[Peer(e)]) /\ HasEntry(fd_cell[Peer(e)])'
  BY <1>1, <1>2, StillOpen
<1>5. ~Cut(fd_cell[e])
  <2>1. PICK f \in Fd : f = fd_cell[e]
    BY <1>3
  <2>2. HasEntry(f) /\ HasEntry(f)' /\ ~Cut(f)'
    BY <1>2, <1>3, <2>1 DEF HasEntry, Cut, Held, Disconnected
  <2>. QED  BY <2>1, <2>2 DEF CutStays
<1>6. ~Cut(fd_cell[Peer(e)])
  <2>1. PICK f \in Fd : f = fd_cell[Peer(e)]
    BY <1>4
  <2>2. HasEntry(f) /\ HasEntry(f)' /\ ~Cut(f)'
    BY <1>2, <1>4, <2>1 DEF HasEntry, Cut, Held, Disconnected
  <2>. QED  BY <2>1, <2>2 DEF CutStays
<1>. QED  BY <1>3, <1>4, <1>5, <1>6 DEF Flowing

\* Marks come in pairs, or not at all.
LEMMA TagsKeep ==
  ASSUME ThreadsTypeOK, ThreadsTypeOK', CellsMeanwhile, CellsMeanwhile', NoneOpened,
         CutStays, TagsTogether,
         \A e \in End : \A f, g \in Fd :
           /\ f = fd_cell[e] /\ g = fd_cell[Peer(e)]
           /\ HasEntry(f) /\ HasEntry(f)' /\ HasEntry(g) /\ HasEntry(g)' /\ Disconnected(f)'
           => Disconnected(f) \/ Disconnected(g)'
  PROVE  TagsTogether'
<1>1. ASSUME NEW e \in End, fd_cell'[e] # NoFd, fd_cell'[Peer(e)] # NoFd,
             Disconnected(fd_cell[e])'
      PROVE  Cut(fd_cell[Peer(e)])'
  <2>0. Peer(e) \in End
    BY PeerFacts
  <2>1. PICK f \in Fd : /\ f = fd_cell[e] /\ fd_cell'[e] = f /\ f # NoFd
                        /\ HasEntry(f) /\ HasEntry(f)'
    BY <1>1, StillOpen
  <2>2. PICK g \in Fd : /\ g = fd_cell[Peer(e)] /\ fd_cell'[Peer(e)] = g /\ g # NoFd
                        /\ HasEntry(g) /\ HasEntry(g)'
    BY <1>1, <2>0, StillOpen
  <2>3. Disconnected(f)'
    BY <1>1, <2>1 DEF Disconnected
  <2>4. Disconnected(f) \/ Disconnected(g)'
    BY <2>1, <2>2, <2>3
  <2>5. Cut(g)'
    <3>1. CASE Disconnected(f)
      BY <2>1, <2>2, <3>1 DEF TagsTogether, CutStays
    <3>2. CASE Disconnected(g)'
      BY <3>2 DEF Cut
    <3>. QED  BY <2>4, <3>1, <3>2
  <2>. QED  BY <2>2, <2>5 DEF Cut, Held, Disconnected
<1>. QED  BY <1>1 DEF TagsTogether, Cut, Held, Disconnected

\* For an end to which nothing happens.
Kept(e) ==
  /\ read'[Peer(e)] = read[Peer(e)]
  /\ OwnCount(e)' = OwnCount(e)
  /\ NumbersFor(Pending(e), e)' = NumbersFor(Pending(e), e)
  /\ InOrderFor(Pending(e), e) => InOrderFor(Pending(e), e)'
  /\ fd_cell[Peer(e)] \in unintercepted_fd => fd_cell'[Peer(e)] \in unintercepted_fd'

LEMMA InFlightKeeps ==
  ASSUME NEW e \in End, InFlight(e), Kept(e)
  PROVE  InFlight(e)'
BY DEF InFlight, Kept

LEMMA PendingSame ==
  ASSUME NEW e, UNCHANGED <<delivering, Buffered(e)>>
  PROVE  /\ NumbersFor(Pending(e), e)' = NumbersFor(Pending(e), e)
         /\ InOrderFor(Pending(e), e) => InOrderFor(Pending(e), e)'
<1>1. Pending(e)' = Pending(e)
  BY DEF Pending, InHandFor
<1>. QED  BY <1>1 DEF NumbersFor, InOrderFor

\* What is left to show of a step that opens nothing and buffers nothing.
LEMMA FlowQuiet ==
  ASSUME ThreadsFlowInv, ThreadsInv', ~overtaken, ~overtaken', AcceptedStay, NoneOpened,
         CutStays, TagsTogether', HandNext', OwnOrdered',
         \A e \in End : Accepted(e) \/ (read'[e] = read[e] /\ out'[e] = out[e]),
         \A ch \in Channel : \A i \in DOMAIN network'[ch] :
           \E j \in DOMAIN network[ch] : network'[ch][i] = network[ch][j],
         \A e \in End :
           /\ Flowing(e) /\ Flowing(e)'
           /\ fd_cell'[e] = fd_cell[e] /\ fd_cell'[Peer(e)] = fd_cell[Peer(e)]
           => Kept(e) \/ InFlight(e)'
  PROVE  ThreadsFlowInv'
<1>1. /\ ThreadsTypeOK /\ ThreadsTypeOK' /\ TypeOK /\ CellsMeanwhile /\ CellsMeanwhile'
      /\ FlowMeanwhile
  BY DEF ThreadsFlowInv, ThreadsInv, ThreadsTypeOK, TablesMeanwhile
<1>2. FreshEmpty'
  <2>1. \A e \in End : ~Accepted(e)' => ~Accepted(e)
    BY DEF AcceptedStay
  <2>2. \A e \in End : ~Accepted(e)' => read'[e] = 0 /\ out'[e] = <<>>
    BY <1>1, <2>1 DEF FlowMeanwhile, FreshEmpty
  <2>. QED  BY <2>2 DEF FreshEmpty, Accepted, Waits
<1>3. OwnChannel'
  <2>1. ASSUME NEW ch \in Channel, NEW i \in DOMAIN network'[ch], NEW m,
               m = network'[ch][i]
        PROVE  Accepted(m.fd)' /\ Chan(m.from) = ch /\ ~is_direct
    <3>1. PICK j \in DOMAIN network[ch] : m = network[ch][j]
      BY <2>1
    <3>2. network[ch] \in Seq(Msg)
      BY <1>1 DEF TypeOK
    <3>3. m \in Msg
      BY <3>1, <3>2
    <3>4. m.fd \in End
      BY <3>3 DEF Msg
    <3>. QED  BY <1>1, <3>1, <3>4 DEF FlowMeanwhile, OwnChannel, AcceptedStay
  <2>. QED  BY <2>1 DEF OwnChannel, Accepted, Waits
<1>4. FramesFollow'
  <2>1. ASSUME NEW e \in End, Flowing(e)' PROVE InFlight(e)'
    BY <1>1, <2>1, StillFlowing, InFlightKeeps DEF FlowMeanwhile, FramesFollow
  <2>. QED  BY <2>1 DEF FramesFollow
<1>. QED  BY <1>2, <1>3, <1>4 DEF ThreadsFlowInv, FlowMeanwhile

LEMMA HandStays ==
  ASSUME FlowMeanwhile, UNCHANGED <<out, delivering>>
  PROVE  HandNext' /\ OwnOrdered'
BY DEF FlowMeanwhile, HandNext, OwnOrdered, OwnCount

LEMMA KeptSame ==
  ASSUME NEW e \in End, UNCHANGED <<delivering, network>>,
         OwnCount(e)' = OwnCount(e), read'[Peer(e)] = read[Peer(e)],
         fd_cell[Peer(e)] \in unintercepted_fd => fd_cell'[Peer(e)] \in unintercepted_fd'
  PROVE  Kept(e)
<1>1. UNCHANGED Buffered(e)
  BY DEF Buffered
<1>. QED  BY <1>1, PendingSame DEF Kept

\* A step that changes nothing of the tables, the buffers and the items.
LEMMA FlowSame ==
  ASSUME ThreadsFlowInv, ThreadsInv', ~overtaken, ~overtaken', AcceptedStay, CutStays,
         UNCHANGED <<fd_cell, fd_to_channel_status, unintercepted_fd, read, out,
                     network, delivering>>
  PROVE  ThreadsFlowInv'
<1>1. /\ ThreadsTypeOK /\ ThreadsTypeOK' /\ CellsMeanwhile /\ CellsMeanwhile'
      /\ FlowMeanwhile
  BY DEF ThreadsFlowInv, ThreadsInv, TablesMeanwhile
<1>2. NoneOpened
  BY DEF NoneOpened
<1>3. \A f : Disconnected(f)' = Disconnected(f)
  BY DEF Disconnected
<1>4. TagsTogether'
  BY <1>1, <1>2, <1>3, TagsKeep DEF FlowMeanwhile
<1>5. HandNext' /\ OwnOrdered'
  BY <1>1, HandStays
<1>6. \A e \in End : Kept(e)
  BY KeptSame DEF OwnCount
<1>. QED  BY <1>2, <1>4, <1>5, <1>6, FlowQuiet

LEMMA FlowEnvironment ==
  ASSUME ThreadsFlowInv, ThreadsInv', ~overtaken', Environment,
         UNCHANGED <<delivering, inRecover>>
  PROVE  ThreadsFlowInv'
<1>1. UNCHANGED <<fd_cell, fd_to_channel_status, unintercepted_fd, read, out, network,
                  recovering, overtaken, delivering>>
  BY DEF Environment, ClientConnect, AppClose, AppSend, tables, buffers, inRecover
<1>2. (\E c \in Conn : ClientConnect(c)) \/ UNCHANGED <<asked, backlog>>
  BY DEF Environment, AppClose, AppSend, kernel
<1>3. AcceptedStay
  BY <1>2, AcceptedStays DEF ThreadsFlowInv, ThreadsInv, ThreadsTypeOK
<1>4. CutStays
  BY <1>1, CutEntries DEF Disconnected
<1>. QED  BY <1>1, <1>3, <1>4, FlowSame

\* The connection just accepted carries nothing, and it is open at both ends.
LEMMA FlowConnect ==
  ASSUME ThreadsFlowInv, ThreadsInv', ~overtaken, ~overtaken', AcceptedStay, Overlap,
         NEW c \in Conn, Waits(c), NEW f \in Fd, NEW g \in Fd, f # g,
         add_fd_to_channel(c, f, g), UNCHANGED <<read, out, network, delivering>>
  PROVE  ThreadsFlowInv'
<1>. DEFINE client == <<c, "client">>
            peer == <<c, "peer">>
            new(e) == [self_fd |-> e, disconnected |-> FALSE]
<1>1. /\ ThreadsTypeOK /\ ThreadsTypeOK' /\ TypeOK /\ TypeOK'
      /\ CellsMeanwhile /\ CellsMeanwhile' /\ FlowMeanwhile /\ InHand
  BY DEF ThreadsFlowInv, ThreadsInv, ThreadsTypeOK, TablesMeanwhile
<1>2. /\ client \in End /\ peer \in End /\ client # peer
      /\ Peer(client) = peer /\ Peer(peer) = client
      /\ client[1] = c /\ peer[1] = c
      /\ ~Accepted(client) /\ ~Accepted(peer)
  BY DEF End, Side, Peer, Accepted
<1>3. /\ fd_cell'[client] = f /\ fd_cell'[peer] = g
      /\ \A e \in End : e # client /\ e # peer => fd_cell'[e] = fd_cell[e]
      /\ fd_to_channel_status'[f] = new(client) /\ fd_to_channel_status'[g] = new(peer)
      /\ \A h \in Fd : h # f /\ h # g => fd_to_channel_status'[h] = fd_to_channel_status[h]
      /\ unintercepted_fd' = unintercepted_fd
  BY <1>1, <1>2 DEF add_fd_to_channel, TypeOK
<1>4. /\ EndOf(f)' = client /\ EndOf(g)' = peer /\ ~Disconnected(f)' /\ ~Disconnected(g)'
  BY <1>3 DEF EndOf, Disconnected
<1>5. \/ recovering' = recovering
      \/ /\ recovering' # NotRecovering /\ recovering # NotRecovering
         /\ recovering'.todo = recovering.todo /\ recovering'.its = recovering.its
  BY <1>1, OverlapFacts
<1>6. \A h \in Fd : h # f /\ h # g =>
        Disconnected(h)' = Disconnected(h) /\ (Cut(h)' <=> Cut(h))
  BY <1>3, <1>5 DEF Disconnected, Cut, Held
<1>7. ASSUME NEW e \in End, e # client, e # peer
      PROVE  /\ Peer(e) \in End /\ Peer(e) # client /\ Peer(e) # peer
             /\ fd_cell'[e] = fd_cell[e]
             /\ fd_cell[e] # NoFd => fd_cell[e] \in Fd /\ fd_cell[e] # f /\ fd_cell[e] # g
  <2>1. Peer(e) \in End /\ Peer(Peer(e)) = e
    BY PeerFacts
  <2>2. fd_cell'[e] = fd_cell[e]
    BY <1>3, <1>7
  <2>3. fd_cell[e] # NoFd => EndOf(fd_cell[e])' = e /\ fd_cell[e] \in Fd
    BY <1>1, <2>2 DEF CellsMeanwhile, EndOf, TypeOK
  <2>4. fd_cell[e] # f /\ fd_cell[e] # g
    <3>1. \A h \in Fd : h = fd_cell'[e] => h # NoFd /\ EndOf(h)' = e
      BY <2>2, <2>3, Sentinels DEF EndOf
    <3>. QED  BY <1>4, <1>7, <2>2, <3>1
  <2>. QED  BY <1>2, <1>7, <2>1, <2>2, <2>3, <2>4
<1>8. ASSUME NEW e \in End, e # client, e # peer, Flowing(e)'
      PROVE  InFlight(e)'
  <2>1. /\ Peer(e) \in End /\ fd_cell'[e] = fd_cell[e] /\ fd_cell[e] # NoFd
        /\ fd_cell[e] \in Fd /\ fd_cell[e] # f /\ fd_cell[e] # g
    BY <1>7, <1>8 DEF Flowing
  <2>2. /\ fd_cell'[Peer(e)] = fd_cell[Peer(e)] /\ fd_cell[Peer(e)] # NoFd
        /\ fd_cell[Peer(e)] \in Fd /\ fd_cell[Peer(e)] # f /\ fd_cell[Peer(e)] # g
    BY <1>7, <1>8, <2>1 DEF Flowing
  <2>3. PICK h \in Fd, k \in Fd : h = fd_cell[e] /\ k = fd_cell[Peer(e)]
    BY <2>1, <2>2
  <2>4. ~Cut(h)' /\ ~Cut(k)'
    BY <1>8, <2>1, <2>2, <2>3 DEF Flowing, Cut, Held, Disconnected
  <2>5. ~Cut(h) /\ ~Cut(k)
    BY <1>6, <2>1, <2>2, <2>3, <2>4
  <2>6. Flowing(e)
    BY <2>1, <2>2, <2>3, <2>5 DEF Flowing
  <2>7. Kept(e)
    BY <1>3, <2>2, KeptSame DEF OwnCount
  <2>. QED  BY <1>1, <2>6, <2>7, InFlightKeeps DEF FlowMeanwhile, FramesFollow
<1>9. ASSUME NEW e \in End, ~Accepted(e) PROVE InFlight(e)'
  <2>0. Peer(e) \in End /\ ~Accepted(Peer(e)) /\ Chan(Peer(e)) \in Channel
    BY <1>9, PeerFacts, ChanType DEF Accepted, Peer
  <2>1. read'[Peer(e)] = 0 /\ out'[e] = <<>>
    BY <1>1, <1>9, <2>0 DEF FlowMeanwhile, FreshEmpty
  <2>2. OwnCount(e)' = 0
    <3>1. OwnIn(out'[e], Peer(e)) = {}
      BY <2>1 DEF OwnIn
    <3>. QED  BY <3>1, FS_EmptySet DEF OwnCount
  <2>3. ~InHandFor(e)
    BY <1>1, <1>9 DEF InHand, InHandFor
  <2>4. Pending(e)' = Buffered(e)
    BY <2>3 DEF Pending, InHandFor, Buffered
  <2>5. \A i \in DOMAIN Buffered(e) : Buffered(e)[i].fd # e
    BY <1>1, <1>9, <2>0 DEF FlowMeanwhile, OwnChannel, Buffered
  <2>6. NumbersFor(Buffered(e), e) = (0 + 1) .. 0 /\ InOrderFor(Buffered(e), e)
    BY <2>5 DEF NumbersFor, InOrderFor
  <2>. QED  BY <2>1, <2>2, <2>4, <2>6 DEF InFlight
<1>10. FramesFollow'
  BY <1>2, <1>8, <1>9 DEF FramesFollow
<1>11. TagsTogether'
  <2>1. ASSUME NEW e \in End, fd_cell'[e] # NoFd, fd_cell'[Peer(e)] # NoFd,
               Disconnected(fd_cell[e])'
        PROVE  Cut(fd_cell[Peer(e)])'
    <3>1. e # client /\ e # peer
      BY <1>3, <1>4, <2>1 DEF Disconnected
    <3>2. PICK h \in Fd : h = fd_cell[e] /\ h = fd_cell'[e] /\ h # f /\ h # g /\ h # NoFd
      BY <1>7, <2>1, <3>1
    <3>3. PICK k \in Fd : /\ k = fd_cell[Peer(e)] /\ k = fd_cell'[Peer(e)]
                          /\ k # f /\ k # g /\ k # NoFd
      BY <1>7, <2>1, <3>1
    <3>4. Disconnected(h)
      BY <1>6, <2>1, <3>2 DEF Disconnected
    <3>5. Cut(k)'
      BY <1>1, <1>6, <3>2, <3>3, <3>4 DEF FlowMeanwhile, TagsTogether
    <3>. QED  BY <3>3, <3>5 DEF Cut, Held, Disconnected
  <2>. QED  BY <2>1 DEF TagsTogether, Cut, Held, Disconnected
<1>12. FreshEmpty'
  BY <1>1 DEF FlowMeanwhile, FreshEmpty, AcceptedStay, Accepted, Waits
<1>13. OwnChannel'
  <2>1. ASSUME NEW ch \in Channel, NEW i \in DOMAIN network[ch], NEW m,
               m = network[ch][i]
        PROVE  Accepted(m.fd)' /\ Chan(m.from) = ch /\ ~is_direct
    <3>1. network[ch] \in Seq(Msg)
      BY <1>1 DEF TypeOK
    <3>2. m \in Msg
      BY <2>1, <3>1
    <3>3. m.fd \in End
      BY <3>2 DEF Msg
    <3>. QED  BY <1>1, <2>1, <3>3 DEF FlowMeanwhile, OwnChannel, AcceptedStay
  <2>. QED  BY <2>1 DEF OwnChannel, Accepted, Waits
<1>14. HandNext' /\ OwnOrdered'
  BY <1>1, HandStays DEF FlowMeanwhile, OwnOrdered
<1>. QED  BY <1>10, <1>11, <1>12, <1>13, <1>14 DEF ThreadsFlowInv, FlowMeanwhile

LEMMA FlowAccept ==
  ASSUME ThreadsFlowInv, ThreadsInv', ~overtaken', Accept, Overlap, UNCHANGED delivering
  PROVE  ThreadsFlowInv'
<1>. USE DEF kernel, tables, buffers
<1>0. PICK c \in Conn : AcceptConnect(c) \/ AcceptRefused(c) \/ AcceptLeaks(c) \/ AcceptDies(c)
  BY DEF Accept
<1>1. ThreadsTypeOK /\ TypeOK /\ ConnectedOnce
  BY DEF ThreadsFlowInv, ThreadsInv, ThreadsTypeOK
<1>2. /\ Accepting(c) /\ UNCHANGED <<network, out, read>>
      /\ Taken \/ UNCHANGED <<asked, backlog>>
  BY <1>0 DEF AcceptConnect, AcceptRefused, AcceptLeaks, AcceptDies, Accepting
<1>3. AcceptedStay
  BY <1>1, <1>2, AcceptedStays
<1>4. ~overtaken
  BY <1>1, OverlapFacts
<1>5. CASE AcceptConnect(c)
  <2>1. PICK f \in FreeFd, g \in FreeFd : f # g /\ add_fd_to_channel(c, f, g)
    BY <1>5 DEF AcceptConnect, IsLowest
  <2>2. f \in Fd /\ g \in Fd
    BY DEF FreeFd
  <2>3. Waits(c)
    <3>1. backlog \in Seq(Conn) /\ backlog # <<>> /\ c = Head(backlog)
      BY <1>1, <1>2 DEF Accepting, TypeOK
    <3>2. 1 \in DOMAIN backlog /\ backlog[1] = c
      BY <3>1, HeadTailProperties
    <3>. QED  BY <3>2 DEF Waits
  <2>. QED  BY <1>2, <1>3, <1>4, <2>1, <2>2, <2>3, FlowConnect
<1>6. CASE AcceptRefused(c) \/ AcceptLeaks(c) \/ AcceptDies(c)
  <2>1. UNCHANGED <<fd_cell, fd_to_channel_status, unintercepted_fd>>
    BY <1>6 DEF AcceptRefused, AcceptLeaks, AcceptDies
  <2>2. recovering' = recovering
    BY <1>1, <2>1, OverlapQuiet DEF HasEntry
  <2>3. CutStays
    BY <2>1, <2>2, CutEntries DEF Disconnected
  <2>. QED  BY <1>2, <1>3, <1>4, <2>1, <2>3, FlowSame
<1>. QED  BY <1>0, <1>5, <1>6

\* The descriptor of an open connection that is not being cut is its end's own.
LEMMA FlowingSocket ==
  ASSUME ThreadsInv, ~overtaken, NEW e \in End, Flowing(e)
  PROVE  LET f == fd_cell[e]
         IN  /\ f \in Fd /\ HasEntry(f) /\ EndOf(f) = e /\ ~Disconnected(f)
             /\ sock[f] = e
<1>. DEFINE f == fd_cell[e]
<1>1. f \in Fd /\ HasEntry(f) /\ EndOf(f) = e /\ ~Disconnected(f) /\ ~Cut(f)
  BY DEF ThreadsInv, ThreadsTypeOK, TypeOK, TablesMeanwhile, CellsMeanwhile, Flowing, Cut
<1>2. ~Half(f)
  <2>1. SUFFICES ASSUME Half(f) PROVE FALSE
    OBVIOUS
  <2>2. recovering.at \in Places /\ f = Closing /\ recovering # NotRecovering
    BY <2>1, OutOrIn DEF Half, Places
  <2>3. recovering.its \in Seq(Fd) /\ Len(recovering.its) \in 1 .. 2
    BY <2>2, RecoveringType DEF ThreadsInv, ItsKept
  <2>4. 1 \in DOMAIN recovering.its
    BY <2>3
  <2>5. Held(f)
    BY <2>2, <2>4 DEF Held, Closing
  <2>. QED  BY <1>1, <2>2, <2>5 DEF Cut
<1>. QED  BY <1>1, <1>2 DEF ThreadsInv, TablesMeanwhile, EntriesMeanwhile

\* The epoll thread closes a connection, with what it has just read.
LEMMA FlowClose ==
  ASSUME ThreadsFlowInv, ThreadsInv', ~overtaken', Overlap, NEW f \in Fd, HasEntry(f),
         Close(Pair(f)), UNCHANGED <<asked, backlog, out, network, delivering>>,
         \A e \in End : e = EndOf(f) \/ e = Peer(EndOf(f)) \/ read'[e] = read[e]
  PROVE  ThreadsFlowInv'
<1>1. /\ ThreadsTypeOK /\ ThreadsTypeOK' /\ TypeOK /\ FlowMeanwhile /\ ~overtaken
      /\ EntriesMeanwhile /\ CellsMeanwhile /\ CellsMeanwhile'
  BY OverlapFacts DEF ThreadsFlowInv, ThreadsInv, ThreadsTypeOK, TablesMeanwhile
<1>2. AcceptedStay
  BY <1>1, AcceptedStays DEF ThreadsFlowInv, ThreadsInv
<1>3. NoneOpened
  BY <1>1 DEF Close, ClearCells, NoneOpened, TypeOK
<1>4. /\ f \in Pair(f)
      /\ \A h \in Fd : fd_to_channel_status'[h] =
           IF h \in Pair(f) THEN NoEntry ELSE fd_to_channel_status[h]
      /\ unintercepted_fd' = unintercepted_fd \ Pair(f)
  BY DEF Close, EraseEntries, EraseUnintercepted, Pair
<1>5. \A h \in Fd : HasEntry(h)' => h \notin Pair(f) /\ Disconnected(h)' = Disconnected(h)
  BY <1>4 DEF HasEntry, Disconnected
<1>6. CutStays
  BY <1>1, <1>5, OverlapFacts, CutEntries
<1>7. TagsTogether'
  BY <1>1, <1>3, <1>5, <1>6, TagsKeep DEF FlowMeanwhile
<1>8. HandNext' /\ OwnOrdered'
  BY <1>1, HandStays
<1>9. /\ Accepted(EndOf(f)) /\ Accepted(Peer(EndOf(f)))
      /\ fd_cell[EndOf(f)] \in {f, NoFd}
  BY <1>1 DEF EntriesMeanwhile, Accepted, Peer
<1>10. ASSUME NEW e \in End, Flowing(e)', fd_cell'[Peer(e)] = fd_cell[Peer(e)]
       PROVE  Kept(e)
  <2>1. Peer(e) \in End
    BY PeerFacts
  <2>2. PICK h \in Fd : h = fd_cell[Peer(e)] /\ HasEntry(h) /\ HasEntry(h)' /\ h # NoFd
    <3>1. fd_cell'[Peer(e)] # NoFd
      BY <1>10 DEF Flowing
    <3>. QED  BY <1>1, <1>3, <2>1, <3>1, StillOpen DEF HasEntry
  <2>3. h \notin Pair(f)
    BY <1>5, <2>2
  <2>4. Peer(e) # EndOf(f) /\ Peer(e) # Peer(EndOf(f))
    <3>1. fd_cell[Peer(EndOf(f))] # h
      BY <2>2, <2>3 DEF Pair
    <3>. QED  BY <1>4, <1>9, <2>2, <2>3, <3>1
  <2>5. h \in unintercepted_fd => h \in unintercepted_fd'
    BY <1>4, <2>3
  <2>. QED  BY <1>10, <2>1, <2>2, <2>4, <2>5, KeptSame DEF OwnCount
<1>. QED  BY <1>1, <1>2, <1>3, <1>6, <1>7, <1>8, <1>9, <1>10, FlowQuiet

LEMMA PendingType ==
  ASSUME ThreadsTypeOK, NEW e \in End
  PROVE  Buffered(e) \in Seq(Msg) /\ Pending(e) \in Seq(Msg)
<1>1. Buffered(e) \in Seq(Msg)
  BY PeerFacts, ChanType DEF ThreadsTypeOK, TypeOK, Buffered
<1>2. CASE InHandFor(e)
  <2>1. PICK m \in Msg : m = delivering.msg
    BY <1>2, DeliveringType DEF InHandFor
  <2>2. <<m>> \in Seq(Msg)
    OBVIOUS
  <2>3. <<m>> \o Buffered(e) \in Seq(Msg)
    BY <1>1, <2>2, ConcatProperties
  <2>. QED  BY <1>1, <1>2, <2>1, <2>3 DEF Pending
<1>. QED  BY <1>1, <1>2 DEF Pending

\* A message joins the buffer of its channel behind what is pending.
LEMMA PendingAppend ==
  ASSUME ThreadsTypeOK, UNCHANGED delivering, NEW ch \in Channel, NEW m \in Msg,
         BufferLast(ch, m), NEW e \in End
  PROVE  Pending(e)' = IF ch = Chan(Peer(e)) THEN Append(Pending(e), m) ELSE Pending(e)
<1>. DEFINE S == Seq(Msg)
            s == Buffered(e)
<1>1. s \in S /\ Chan(Peer(e)) \in Channel
  BY PendingType, PeerFacts, ChanType
<1>2. Buffered(e)' = IF ch = Chan(Peer(e)) THEN Append(s, m) ELSE s
  <2>1. network \in [Channel -> S]
    BY DEF ThreadsTypeOK, TypeOK
  <2>2. network' = [network EXCEPT ![ch] = Append(@, m)]
    BY DEF BufferLast
  <2>. HIDE DEF S
  <2>. QED  BY <1>1, <2>1, <2>2 DEF Buffered
<1>3. InHandFor(e)' <=> InHandFor(e)
  BY DEF InHandFor
<1>4. CASE InHandFor(e)
  <2>1. PICK d \in Msg : d = delivering.msg
    BY <1>4, DeliveringType DEF InHandFor
  <2>2. <<d>> \o Append(s, m) = Append(<<d>> \o s, m)
    <3>1. <<d>> \in S /\ <<m>> \in S /\ <<d>> \o s \in S
      BY <1>1, ConcatProperties
    <3>2. Append(s, m) = s \o <<m>> /\ Append(<<d>> \o s, m) = (<<d>> \o s) \o <<m>>
      BY <1>1, <3>1, AppendIsConcat
    <3>3. <<d>> \o (s \o <<m>>) = (<<d>> \o s) \o <<m>>
      BY <1>1, <3>1, ConcatAssociative
    <3>. QED  BY <3>2, <3>3
  <2>. HIDE DEF s
  <2>3. Pending(e) = <<d>> \o s /\ Pending(e)' = <<d>> \o Buffered(e)'
    BY <1>3, <1>4, <2>1 DEF Pending, s
  <2>. QED  BY <1>2, <2>2, <2>3
<1>5. CASE ~InHandFor(e)
  BY <1>2, <1>3, <1>5 DEF Pending
<1>. QED  BY <1>4, <1>5

\* What the epoll thread knows of the descriptor it reads from.
LEMMA Reading ==
  ASSUME ThreadsInv, ~overtaken, NEW f \in Fd, HasEntry(f), sock[f] \in End
  PROVE  LET w == EndOf(f)
         IN  /\ w \in End /\ Peer(w) \in End /\ Peer(Peer(w)) = w
             /\ sock[f] = w /\ fd_cell[w] = f /\ f # NoFd
             /\ Accepted(w) /\ Accepted(Peer(w))
<1>1. TypeOK /\ EntriesMeanwhile
  BY DEF ThreadsInv, ThreadsTypeOK, TablesMeanwhile
<1>2. sock[f] = EndOf(f) /\ fd_cell[EndOf(f)] = f /\ Accepted(EndOf(f))
  BY <1>1, Sentinels DEF EntriesMeanwhile
<1>3. EndOf(f) \in End
  BY <1>1, EntryType
<1>. QED  BY <1>2, <1>3, PeerFacts, Sentinels DEF Accepted, Peer

\* A frame is buffered behind the others of its connection.
LEMMA FlowBuffer ==
  ASSUME ThreadsFlowInv, ThreadsInv', ~overtaken, ~overtaken', Overlap,
         NEW f \in Fd, HasEntry(f), sock[f] \in End, f \notin unintercepted_fd,
         ~is_direct, Consume(f), BufferLast(Chan(EndOf(f)), NewMsg(f)),
         UNCHANGED <<asked, backlog, delivering>>
  PROVE  ThreadsFlowInv'
<1>. USE DEF tables
<1>1. /\ ThreadsTypeOK /\ ThreadsTypeOK' /\ TypeOK /\ FlowMeanwhile
      /\ CellsMeanwhile /\ CellsMeanwhile'
  BY DEF ThreadsFlowInv, ThreadsInv, ThreadsTypeOK, TablesMeanwhile
<1>2. PICK w \in End, e \in End : /\ w = EndOf(f) /\ e = Peer(w) /\ Peer(e) = w
                                  /\ fd_cell[w] = f /\ Accepted(w) /\ Accepted(e)
  BY Reading DEF ThreadsFlowInv
<1>3. /\ UNCHANGED <<sock, fd_cell, fd_to_channel_status, unintercepted_fd, out>>
      /\ read' = [read EXCEPT ![w] = read[w] + 1]
  BY <1>2 DEF BufferLast, Consume
<1>4. read[w] \in Nat /\ \A x \in End : read'[x] = IF x = w THEN read[w] + 1 ELSE read[x]
  BY <1>1, <1>3 DEF TypeOK
<1>5. PICK m \in Msg : /\ m = NewMsg(f) /\ m.fd = e /\ m.from = w
                       /\ m.n = read[w] + 1
  <2>1. [fd |-> e, from |-> w, n |-> read[w] + 1] \in Msg
    BY <1>4 DEF Msg
  <2>. QED  BY <1>2, <2>1 DEF NewMsg, Next_n
<1>6. PICK ch \in Channel : ch = Chan(w) /\ BufferLast(ch, m)
  BY <1>2, <1>5, ChanType
<1>7. recovering' = recovering
  BY <1>1, <1>3, OverlapQuiet DEF HasEntry
<1>8. NoneOpened /\ CutStays /\ AcceptedStay
  BY <1>1, <1>3, <1>7, CutEntries, AcceptedStays DEF NoneOpened, Disconnected, ThreadsFlowInv,
     ThreadsInv
<1>9. TagsTogether'
  BY <1>1, <1>3, <1>7 DEF FlowMeanwhile, TagsTogether, Cut, Held, Disconnected
<1>10. HandNext' /\ OwnOrdered'
  BY <1>1, <1>3, HandStays
<1>11. FreshEmpty'
  BY <1>1, <1>2, <1>3, <1>4 DEF FlowMeanwhile, FreshEmpty, Accepted, Waits
<1>12. OwnChannel'
  <2>. DEFINE S == Seq(Msg)
              s == network[ch]
  <2>1. s \in S /\ network \in [Channel -> S]
    BY <1>1 DEF TypeOK
  <2>2. network' = [network EXCEPT ![ch] = Append(s, m)]
    BY <1>6 DEF BufferLast
  <2>3. /\ DOMAIN s = 1 .. Len(s) /\ Len(s) \in Nat
        /\ DOMAIN Append(s, m) = 1 .. (Len(s) + 1)
        /\ \A i \in 1 .. Len(s) : Append(s, m)[i] = s[i]
        /\ Append(s, m)[Len(s) + 1] = m
    BY <2>1, AppendProperties
  <2>. HIDE DEF S, s
  <2>4. \A k \in Channel : network'[k] = IF k = ch THEN Append(s, m) ELSE network[k]
    BY <2>1, <2>2
  <2>5. ASSUME NEW k \in Channel, NEW i \in DOMAIN network'[k]
        PROVE  \/ i \in DOMAIN network[k] /\ network'[k][i] = network[k][i]
               \/ k = ch /\ network'[k][i] = m
    <3>1. CASE k = ch
      <4>1. network'[k] = Append(s, m) /\ i \in 1 .. (Len(s) + 1)
        BY <2>3, <2>4, <2>5, <3>1
      <4>2. CASE i = Len(s) + 1
        BY <2>3, <3>1, <4>1, <4>2
      <4>3. CASE i # Len(s) + 1
        <5>1. i \in 1 .. Len(s)
          BY <2>3, <4>1, <4>3
        <5>2. i \in DOMAIN s /\ network'[k][i] = s[i]
          BY <2>3, <4>1, <5>1
        <5>. QED  BY <3>1, <5>2 DEF s
      <4>. QED  BY <4>2, <4>3
    <3>2. CASE k # ch
      BY <2>4, <2>5, <3>2
    <3>. QED  BY <3>1, <3>2
  <2>6. ASSUME NEW k \in Channel, NEW i \in DOMAIN network'[k]
        PROVE  /\ Accepted(network'[k][i].fd) /\ Chan(network'[k][i].from) = k
               /\ ~is_direct
    BY <1>1, <1>2, <1>5, <1>6, <2>5, <2>6 DEF FlowMeanwhile, OwnChannel
  <2>. QED  BY <2>6 DEF OwnChannel, Accepted, Waits
<1>13. ASSUME NEW x \in End, Flowing(x), x # e
       PROVE  InFlight(x)'
  <2>1. Peer(x) \in End /\ Peer(x) # w
    BY <1>2, <1>13, PeerFacts
  <2>2. Pending(x)' = Pending(x) \/ Pending(x)' = Append(Pending(x), m)
    BY <1>1, <1>6, PendingAppend
  <2>3. Pending(x) \in Seq(Msg)
    BY <1>1, PendingType
  <2>4. /\ NumbersFor(Pending(x), x)' = NumbersFor(Pending(x), x)
        /\ InOrderFor(Pending(x), x) => InOrderFor(Pending(x), x)'
    <3>1. CASE Pending(x)' = Pending(x)
      BY <3>1 DEF NumbersFor, InOrderFor
    <3>2. CASE Pending(x)' = Append(Pending(x), m)
      <4>1. /\ NumbersFor(Append(Pending(x), m), x) = NumbersFor(Pending(x), x)
            /\ InOrderFor(Pending(x), x) => InOrderFor(Append(Pending(x), m), x)
        BY <1>5, <1>13, <2>3, AppendOther
      <4>. QED  BY <3>2, <4>1 DEF NumbersFor, InOrderFor
    <3>. QED  BY <2>2, <3>1, <3>2
  <2>5. OwnCount(x)' = OwnCount(x)
    BY <1>3 DEF OwnCount
  <2>6. Kept(x)
    BY <1>3, <1>4, <2>1, <2>4, <2>5 DEF Kept
  <2>. QED  BY <1>1, <1>13, <2>6, InFlightKeeps DEF FlowMeanwhile, FramesFollow
<1>14. ASSUME Flowing(e) PROVE InFlight(e)'
  <2>. DEFINE p == Pending(e)
              k == OwnCount(e)
              n == read[w]
  <2>1. /\ n \in Nat /\ k \in Nat /\ p \in Seq(Msg) /\ OwnCount(e)' = k
        /\ read'[Peer(e)] = n + 1 /\ fd_cell'[Peer(e)] = f
    BY <1>1, <1>2, <1>3, <1>4, CountType, PendingType DEF OwnCount
  <2>2. k <= n /\ NumbersFor(p, e) = (k + 1) .. n /\ InOrderFor(p, e)
    BY <1>1, <1>2, <1>14 DEF FlowMeanwhile, FramesFollow, InFlight
  <2>3. Pending(e)' = Append(p, m)
    BY <1>1, <1>2, <1>6, PendingAppend
  <2>. HIDE DEF p, k, n
  <2>4. m.n = n + 1 /\ \A j \in NumbersFor(p, m.fd) : j < m.n
    BY <1>5, <2>1, <2>2 DEF n
  <2>5. /\ NumbersFor(Append(p, m), e) = NumbersFor(p, e) \cup {m.n}
        /\ InOrderFor(Append(p, m), e)
    BY <1>5, <2>1, <2>2, <2>4, AppendOwn
  <2>6. ((k + 1) .. n) \cup {n + 1} = (k + 1) .. (n + 1) /\ n + 1 \in 0 .. (n + 1)
        /\ k <= n + 1
    BY <2>1, <2>2
  <2>7. NumbersFor(Append(p, m), e) = (k + 1) .. (n + 1)
    BY <2>2, <2>4, <2>5, <2>6, Zenon
  <2>8. /\ NumbersFor(Pending(e), e)' = NumbersFor(Append(p, m), e)
        /\ InOrderFor(Pending(e), e)' <=> InOrderFor(Append(p, m), e)
    BY <2>3 DEF NumbersFor, InOrderFor
  <2>9. /\ n + 1 \in 0 .. read'[Peer(e)] /\ n + 1 = read'[Peer(e)]
        /\ OwnCount(e)' <= n + 1
        /\ NumbersFor(Pending(e), e)' = (OwnCount(e)' + 1) .. (n + 1)
    BY <2>1, <2>6, <2>7, <2>8
  <2>. QED  BY <2>5, <2>8, <2>9 DEF InFlight
<1>15. FramesFollow'
  BY <1>1, <1>8, <1>13, <1>14, StillFlowing DEF FramesFollow
<1>. QED  BY <1>9, <1>10, <1>11, <1>12, <1>15 DEF ThreadsFlowInv, FlowMeanwhile

\* What the epoll thread has read is lost to nobody, as long as tables and
\* buffers stay and the frames for the other end are accounted for.
LEMMA FlowRead ==
  ASSUME ThreadsFlowInv, ThreadsInv', ~overtaken, ~overtaken', Overlap,
         NEW f \in Fd, HasEntry(f), sock[f] \in End, Consume(f),
         UNCHANGED <<asked, backlog, fd_cell, fd_to_channel_status, network, delivering>>,
         unintercepted_fd \subseteq unintercepted_fd',
         HandNext', OwnOrdered',
         NEW e \in End, e = Peer(EndOf(f)),
         \A x \in End : x # e => out'[x] = out[x],
         Flowing(e) => InFlight(e)'
  PROVE  ThreadsFlowInv'
<1>1. ThreadsTypeOK /\ TypeOK /\ FlowMeanwhile /\ ConnectedOnce
  BY DEF ThreadsFlowInv, ThreadsInv, ThreadsTypeOK
<1>2. PICK w \in End : /\ w = EndOf(f) /\ e = Peer(w) /\ Peer(e) = w
                       /\ Accepted(w) /\ Accepted(e)
  BY Reading DEF ThreadsFlowInv
<1>3. read' = [read EXCEPT ![w] = read[w] + 1]
  BY <1>2 DEF Consume
<1>4. \A x \in End : x # w => read'[x] = read[x]
  BY <1>1, <1>3 DEF TypeOK
<1>5. recovering' = recovering
  BY <1>1, OverlapQuiet DEF HasEntry
<1>6. NoneOpened /\ CutStays /\ AcceptedStay
  BY <1>1, <1>5, CutEntries, AcceptedStays DEF NoneOpened, Disconnected
<1>7. TagsTogether'
  BY <1>1, <1>5 DEF FlowMeanwhile, TagsTogether, Cut, Held, Disconnected
<1>8. ASSUME NEW x \in End, x # e PROVE Kept(x)
  <2>1. Peer(x) \in End /\ Peer(x) # w
    BY <1>2, <1>8, PeerFacts
  <2>2. out'[x] = out[x] /\ read'[Peer(x)] = read[Peer(x)]
    BY <1>2, <1>4, <1>8, <2>1
  <2>. QED  BY <2>2, KeptSame DEF OwnCount
<1>9. \A x \in End : Accepted(x) \/ (read'[x] = read[x] /\ out'[x] = out[x])
  BY <1>2, <1>4
<1>10. \A x \in End : Flowing(x) => Kept(x) \/ InFlight(x)'
  BY <1>8
<1>. QED  BY <1>6, <1>7, <1>9, <1>10, FlowQuiet

\* With DIRECT a frame is forwarded as soon as it is read.
LEMMA FlowDirect ==
  ASSUME ThreadsFlowInv, ThreadsInv', ~overtaken, ~overtaken', Overlap,
         NEW f \in Fd, HasEntry(f), sock[f] \in End, f \notin unintercepted_fd,
         ~Disconnected(f), is_direct, Consume(f), deliver(NewMsg(f)),
         UNCHANGED <<asked, backlog, network, delivering>>
  PROVE  ThreadsFlowInv'
<1>. USE DEF tables
<1>1. ThreadsTypeOK /\ TypeOK /\ FlowMeanwhile /\ TypeOK'
  BY DEF ThreadsFlowInv, ThreadsInv, ThreadsTypeOK
<1>2. delivering = NotDelivering /\ recovering = NotRecovering
  BY DEF ThreadsFlowInv, ThreadsInv, OneAtATime
<1>3. PICK w \in End, e \in End : /\ w = EndOf(f) /\ e = Peer(w) /\ Peer(e) = w
                                  /\ sock[f] = w /\ fd_cell[w] = f /\ f # NoFd
  BY Reading DEF ThreadsFlowInv
<1>4. /\ read[w] \in Nat /\ read' = [read EXCEPT ![w] = read[w] + 1]
      /\ read'[w] = read[w] + 1
  BY <1>1, <1>3 DEF TypeOK, Consume
<1>5. PICK m \in Msg : /\ m = NewMsg(f) /\ m.fd = e /\ m.from = w
                       /\ m.n = read[w] + 1
  <2>1. [fd |-> e, from |-> w, n |-> read[w] + 1] \in Msg
    BY <1>4 DEF Msg
  <2>. QED  BY <1>3, <2>1 DEF NewMsg, Next_n
<1>6. deliver(m)
  BY <1>5
<1>7. NumbersFor(Pending(e), e) = {} /\ InOrderFor(Pending(e), e)
  <2>1. Chan(Peer(e)) \in Channel
    BY <1>3, ChanType
  <2>2. DOMAIN Buffered(e) = {}
    BY <1>1, <2>1 DEF FlowMeanwhile, OwnChannel, Buffered
  <2>. QED  BY <1>2, <2>2 DEF Pending, InHandFor, NumbersFor, InOrderFor
<1>8. Pending(e)' = Pending(e)
  BY DEF Pending, InHandFor, Buffered
<1>9. OwnCount(e) \in Nat /\ (Flowing(e) => OwnCount(e) = read[w])
  <2>1. OwnCount(e) \in Nat
    BY <1>1, CountType
  <2>2. ASSUME Flowing(e) PROVE OwnCount(e) = read[w]
    <3>1. OwnCount(e) <= read[w] /\ {} = (OwnCount(e) + 1) .. read[w]
      BY <1>1, <1>3, <1>7, <2>2 DEF FlowMeanwhile, FramesFollow, InFlight
    <3>2. OwnCount(e) < read[w] => read[w] \in (OwnCount(e) + 1) .. read[w]
      BY <1>4, <2>1
    <3>. QED  BY <1>4, <2>1, <3>1, <3>2
  <2>. QED  BY <2>1, <2>2
<1>10. Deliverable(m) <=> Flowing(e)
  <2>1. ~Cut(f)
    BY <1>2 DEF Cut
  <2>2. fd_cell[e] \in Fd => fd_cell[e] # NoFd
    BY Sentinels
  <2>3. Deliverable(m) => Flowing(e)
    BY <1>2, <1>3, <1>5, <2>1, <2>2 DEF Deliverable, Flowing, Cut
  <2>4. Flowing(e) => Deliverable(m)
    BY <1>5, FlowingSocket DEF ThreadsFlowInv, Deliverable
  <2>. QED  BY <2>3, <2>4
<1>11. HandNext'
  BY <1>2 DEF HandNext
<1>12. CASE DeliverBody(m)
  <2>. DEFINE item == [from |-> m.from, n |-> m.n, raw |-> FALSE, whole |-> TRUE]
  <2>1. Flowing(e) /\ WriteItem(fd_cell[e], item)
        /\ UNCHANGED <<sock, fd_cell, fd_to_channel_status, unintercepted_fd>>
    BY <1>5, <1>10, <1>12 DEF DeliverBody
  <2>2. sock[fd_cell[e]] = e
    BY <2>1, FlowingSocket DEF ThreadsFlowInv
  <2>3. /\ item \in Item /\ ~item.raw /\ item.from = Peer(e) /\ item.n = OwnCount(e) + 1
        /\ out' = [out EXCEPT ![e] = Append(@, item)]
    BY <1>3, <1>5, <1>9, <2>1, <2>2 DEF WriteItem, Msg, Item
  <2>. HIDE DEF item
  <2>4. /\ OwnOrdered' /\ \A x \in End : x # e => out'[x] = out[x]
        /\ OwnCount(e)' = OwnCount(e) + 1
    <3>1. TypeOK /\ OwnOrdered /\ e \in End
      BY <1>1, <1>5 DEF FlowMeanwhile, Msg
    <3>2. /\ OwnOrdered'
          /\ \A x \in End : out'[x] # out[x] => x = e
          /\ \A x \in End : OwnCount(x)' = OwnCount(x)
               + (IF x = e /\ ~item.raw /\ item.from = Peer(x) THEN 1 ELSE 0)
      BY <2>3, <3>1, OwnWrite
    <3>. QED  BY <2>3, <3>1, <3>2
  <2>5. InFlight(e)'
    <3>1. /\ read'[Peer(e)] = read[w] + 1 /\ OwnCount(e)' = read[w] + 1
          /\ NumbersFor(Pending(e), e)' = {} /\ InOrderFor(Pending(e), e)'
      BY <1>3, <1>4, <1>7, <1>8, <1>9, <2>1, <2>4 DEF NumbersFor, InOrderFor
    <3>2. (read[w] + 1) + 1 .. (read[w] + 1) = {} /\ read[w] + 1 \in 0 .. (read[w] + 1)
      BY <1>4
    <3>. QED  BY <1>4, <3>1, <3>2 DEF InFlight
  <2>. QED  BY <1>3, <1>11, <2>1, <2>4, <2>5, FlowRead
<1>13. CASE DeliverDrop(m)
  <2>1. ~Flowing(e) /\ UNCHANGED <<out, sock, fd_cell, fd_to_channel_status, unintercepted_fd>>
    BY <1>10, <1>13 DEF DeliverDrop
  <2>2. OwnOrdered'
    BY <1>1, <2>1, HandStays
  <2>. QED  BY <1>3, <1>11, <2>1, <2>2, FlowRead
<1>14. CASE DeliverFails(m)
  <2>1. PICK g \in Fd : /\ g = fd_cell[e] /\ HasEntry(g) /\ Close(Pair(g)) /\ out' = out
    BY <1>5, <1>14 DEF DeliverFails, Deliverable
  <2>2. EndOf(g) = e
    BY <1>10, <1>14, <2>1, FlowingSocket DEF ThreadsFlowInv, DeliverFails
  <2>3. \A x \in End : x = EndOf(g) \/ x = Peer(EndOf(g)) \/ read'[x] = read[x]
    BY <1>1, <1>3, <1>4, <2>2 DEF TypeOK
  <2>. QED  BY <2>1, <2>3, FlowClose
<1>. QED  BY <1>6, <1>12, <1>13, <1>14 DEF deliver

\* What is passed on unintercepted is not numbered with the frames.
LEMMA FlowPassOn ==
  ASSUME ThreadsFlowInv, ThreadsInv', ~overtaken, ~overtaken', Overlap,
         NEW f \in Fd, HasEntry(f), sock[f] \in End, Consume(f),
         PassOn(f, fd_cell[Peer(EndOf(f))]),
         UNCHANGED <<asked, backlog, network, delivering>>
  PROVE  ThreadsFlowInv'
<1>1. ThreadsTypeOK /\ TypeOK /\ FlowMeanwhile
  BY DEF ThreadsFlowInv, ThreadsInv, ThreadsTypeOK
<1>2. PICK w \in End, e \in End : /\ w = EndOf(f) /\ e = Peer(w) /\ Peer(e) = w
                                  /\ fd_cell[w] = f
  BY Reading DEF ThreadsFlowInv
<1>3. PICK g \in Fd : /\ g = fd_cell[e] /\ sock[g] \in End /\ PassOn(f, g)
  BY <1>2 DEF PassOn, OnConnection
<1>4. read[w] \in Nat /\ read'[w] = read[w] + 1
  BY <1>1, <1>2 DEF TypeOK, Consume
<1>5. sock[g] = e
  <2>1. g # NoFd /\ sock[g] # Free
    BY <1>3, Sentinels
  <2>. QED  BY <1>1, <1>3, <2>1, WriteReaches DEF ThreadsFlowInv, ThreadsInv
<1>6. PICK item \in Item : /\ item.from = w /\ item.n = read[w] + 1 /\ item.raw
                           /\ WriteItem(g, item)
  <2>1. PICK whole \in BOOLEAN :
          WriteItem(g, [from |-> w, n |-> read[w] + 1, raw |-> TRUE, whole |-> whole])
    BY <1>2, <1>3 DEF PassOn, Next_n
  <2>2. [from |-> w, n |-> read[w] + 1, raw |-> TRUE, whole |-> whole] \in Item
    BY <1>4 DEF Item
  <2>. QED  BY <2>1, <2>2
<1>7. /\ out' = [out EXCEPT ![e] = Append(@, item)] /\ item.raw
      /\ unintercepted_fd' = unintercepted_fd \cup {f}
      /\ UNCHANGED <<sock, fd_cell, fd_to_channel_status>>
  BY <1>2, <1>3, <1>5, <1>6 DEF PassOn, WriteItem
<1>8. /\ OwnOrdered' /\ \A x \in End : OwnCount(x)' = OwnCount(x)
      /\ \A x \in End : x # e => out'[x] = out[x]
  <2>1. \A x \in End : OwnCount(x) \in Nat
    BY <1>1, CountType
  <2>2. /\ OwnOrdered' /\ \A x \in End : x # e => out'[x] = out[x]
        /\ \A x \in End : OwnCount(x)' = OwnCount(x)
             + (IF x = e /\ ~item.raw /\ item.from = Peer(x) THEN 1 ELSE 0)
    BY <1>1, <1>7, OwnWrite DEF FlowMeanwhile
  <2>. QED  BY <1>7, <2>1, <2>2
<1>9. HandNext'
  BY <1>1, <1>8, DeliveringType DEF FlowMeanwhile, HandNext
<1>10. ASSUME Flowing(e) PROVE InFlight(e)'
  <2>1. PICK last \in 0 .. read[w] :
          /\ OwnCount(e) <= last
          /\ NumbersFor(Pending(e), e) = (OwnCount(e) + 1) .. last
          /\ InOrderFor(Pending(e), e)
    BY <1>1, <1>2, <1>10 DEF FlowMeanwhile, FramesFollow, InFlight
  <2>2. /\ NumbersFor(Pending(e), e)' = NumbersFor(Pending(e), e)
        /\ InOrderFor(Pending(e), e)'
    BY <2>1, PendingSame DEF Buffered
  <2>3. last \in 0 .. read'[Peer(e)] /\ fd_cell'[Peer(e)] \in unintercepted_fd'
    BY <1>2, <1>4, <1>7
  <2>. QED  BY <1>8, <2>1, <2>2, <2>3 DEF InFlight
<1>. QED  BY <1>2, <1>7, <1>8, <1>9, <1>10, FlowRead

LEMMA FlowReceive ==
  ASSUME ThreadsFlowInv, ThreadsInv', ~overtaken', NEW f \in Fd, sock[f] \in End,
         do_receive(f), Overlap, UNCHANGED delivering
  PROVE  ThreadsFlowInv'
<1>. USE DEF kernel, tables, buffers
<1>1. ThreadsTypeOK /\ TypeOK /\ FlowMeanwhile /\ ~overtaken
  BY OverlapFacts DEF ThreadsFlowInv, ThreadsInv, ThreadsTypeOK
<1>2. HasEntry(f) /\ UNCHANGED <<asked, backlog>> /\ Consume(f)
  BY DEF do_receive, ReceiveFrame, ReceiveEnd, EndsConnection, ReceiveRaw, Readable
<1>3. PICK w \in End : w = EndOf(f) /\ fd_cell[w] = f /\ Peer(w) \in End
                       /\ Peer(Peer(w)) = w
  BY <1>1, <1>2, Reading DEF ThreadsFlowInv
<1>4. \A x \in End : x = EndOf(f) \/ x = Peer(EndOf(f)) \/ read'[x] = read[x]
  BY <1>1, <1>2 DEF TypeOK, Consume
<1>5. CASE ReceiveFrame(f)
  <2>1. f \notin unintercepted_fd /\ enqueue_msg(f, NewMsg(f))
    BY <1>5 DEF ReceiveFrame
  <2>2. CASE Disconnected(f) /\ UNCHANGED <<out, tables, buffers>>
    <3>1. ~Flowing(Peer(w))
      BY <1>3, <2>2 DEF Flowing, Cut
    <3>2. HandNext' /\ OwnOrdered'
      BY <1>1, <2>2, HandStays
    <3>3. PICK e \in End : e = Peer(w)
      BY <1>3
    <3>. QED  BY <1>1, <1>2, <1>3, <2>2, <3>1, <3>2, <3>3, FlowRead
  <2>3. CASE ~Disconnected(f) /\ is_direct /\ deliver(NewMsg(f)) /\ UNCHANGED buffers
    BY <1>1, <1>2, <2>1, <2>3, FlowDirect
  <2>4. CASE ~Disconnected(f) /\ ~is_direct /\ BufferLast(Chan(EndOf(f)), NewMsg(f))
    BY <1>1, <1>2, <2>1, <2>4, FlowBuffer
  <2>. QED  BY <2>1, <2>2, <2>3, <2>4 DEF enqueue_msg
<1>6. CASE ReceiveEnd(f)
  <2>1. Close(Pair(f)) /\ UNCHANGED <<out, network>>
    BY <1>6 DEF ReceiveEnd
  <2>. QED  BY <1>2, <1>4, <2>1, FlowClose
<1>7. CASE ReceiveRaw(f)
  <2>. DEFINE g == fd_cell[Peer(EndOf(f))]
  <2>1. UNCHANGED network /\ (PassOn(f, g) \/ PassOnFails(f, g))
    BY <1>7 DEF ReceiveRaw
  <2>2. CASE PassOn(f, g)
    BY <1>1, <1>2, <2>1, <2>2, FlowPassOn
  <2>3. CASE PassOnFails(f, g)
    BY <1>2, <1>4, <2>1, <2>3, FlowClose DEF PassOnFails
  <2>. QED  BY <2>1, <2>2, <2>3
<1>. QED  BY <1>5, <1>6, <1>7 DEF do_receive

LEMMA FlowEpoll ==
  ASSUME ThreadsFlowInv, ThreadsInv', ~overtaken', EpollThread, Overlap, UNCHANGED delivering
  PROVE  ThreadsFlowInv'
<1>. USE DEF kernel, tables, buffers
<1>1. ThreadsTypeOK /\ ~overtaken
  BY OverlapFacts DEF ThreadsFlowInv, ThreadsInv
<1>2. CASE Accept
  BY <1>2, FlowAccept
<1>3. CASE \E f \in Fd : sock[f] \in End /\ do_receive(f)
  BY <1>3, FlowReceive
<1>4. CASE \E f \in Fd : ReceiveClosed(f)
  <2>1. PICK f \in Fd : /\ HasEntry(f) /\ Close(Pair(f))
                        /\ UNCHANGED <<kernel, sent, read, out, up, buffers>>
    BY <1>4 DEF ReceiveClosed
  <2>. QED  BY <2>1, FlowClose
<1>5. CASE \E f \in Fd : ReceiveUnknown(f)
  BY <1>1, <1>5 DEF ReceiveUnknown, ThreadsFlowInv, ThreadsInv, TablesMeanwhile, SocketsMeanwhile
<1>. QED  BY <1>2, <1>3, <1>4, <1>5 DEF EpollThread, Receive

-----------------------------------------------------------------------------
(* What flows while deliver_msg has a message in hand.                       *)

\* What is left to show of a step that leaves the tables alone.
LEMMA FlowHand ==
  ASSUME ThreadsFlowInv, ThreadsInv', ~overtaken, HandNext', OwnOrdered',
         UNCHANGED <<asked, backlog, fd_cell, fd_to_channel_status, unintercepted_fd,
                     read, inRecover>>,
         \A e \in End : Accepted(e) \/ out'[e] = out[e],
         \A ch \in Channel : \A i \in DOMAIN network'[ch] :
           \E j \in DOMAIN network[ch] : network'[ch][i] = network[ch][j],
         \A e \in End : Flowing(e) => Kept(e) \/ InFlight(e)'
  PROVE  ThreadsFlowInv'
<1>1. /\ ThreadsTypeOK /\ TypeOK /\ FlowMeanwhile /\ ConnectedOnce
      /\ recovering' = recovering /\ ~overtaken'
  BY DEF ThreadsFlowInv, ThreadsInv, ThreadsTypeOK, inRecover
<1>2. NoneOpened /\ CutStays /\ AcceptedStay
  BY <1>1, CutEntries, AcceptedStays DEF NoneOpened, Disconnected
<1>3. TagsTogether'
  BY <1>1 DEF FlowMeanwhile, TagsTogether, Cut, Held, Disconnected
<1>. QED  BY <1>1, <1>2, <1>3, FlowQuiet

\* The message that leaves the buffer is the first of its channel's.
LEMMA Dequeued ==
  ASSUME ThreadsFlowInv, ~overtaken, Dequeue, NEW m \in Msg, m = HeadMsg
  PROVE  /\ delivering = NotDelivering /\ m.fd \in End
         /\ Buffered(m.fd) # <<>> /\ m = Head(Buffered(m.fd))
         /\ Buffered(m.fd)' = Tail(Buffered(m.fd))
         /\ \A e \in End : e # m.fd =>
              /\ NumbersFor(Buffered(e), e)' = NumbersFor(Buffered(e), e)
              /\ InOrderFor(Buffered(e), e) => InOrderFor(Buffered(e), e)'
         /\ \A ch \in Channel : \A i \in DOMAIN network'[ch] :
              \E j \in DOMAIN network[ch] : network'[ch][i] = network[ch][j]
<1>. DEFINE s == network[waiting]
            S == Seq(Msg)
<1>1. /\ ThreadsTypeOK /\ TypeOK /\ FlowMeanwhile /\ MessagesAddressed
      /\ delivering = NotDelivering
  BY DEF ThreadsFlowInv, ThreadsInv, ThreadsTypeOK, Dequeue, OneAtATime
<1>2. waiting \in Channel /\ s \in S /\ s # <<>> /\ network \in [Channel -> S]
  BY <1>1 DEF TypeOK, Dequeue
<1>3. network' = [network EXCEPT ![waiting] = Tail(s)]
  BY DEF Dequeue
<1>4. m.from = Peer(m.fd) /\ m.fd \in End
  BY <1>1, DequeueKeeps DEF Msg
<1>5. /\ m = Head(s) /\ Head(s) = s[1] /\ 1 \in DOMAIN s
      /\ \A i \in DOMAIN Tail(s) : i + 1 \in DOMAIN s /\ Tail(s)[i] = s[i + 1]
  BY <1>2, <1>4, HeadTailProperties DEF HeadMsg
<1>6. Chan(Peer(m.fd)) = waiting
  BY <1>1, <1>2, <1>4, <1>5 DEF FlowMeanwhile, OwnChannel
<1>. HIDE DEF s, S
<1>7. \A ch \in Channel : network'[ch] = IF ch = waiting THEN Tail(s) ELSE network[ch]
  BY <1>2, <1>3
<1>8. ASSUME NEW e \in End, e # m.fd
      PROVE  /\ NumbersFor(Buffered(e), e)' = NumbersFor(Buffered(e), e)
             /\ InOrderFor(Buffered(e), e) => InOrderFor(Buffered(e), e)'
  <2>1. Chan(Peer(e)) \in Channel
    BY PeerFacts, ChanType
  <2>2. CASE Chan(Peer(e)) = waiting
    <3>1. Buffered(e) = s /\ Buffered(e)' = Tail(s)
      BY <1>7, <2>1, <2>2 DEF Buffered, s
    <3>2. NumbersFor(Tail(s), e) = NumbersFor(s, e)
      <4>1. NumbersFor(Tail(s), e) \subseteq NumbersFor(s, e)
        BY <1>5 DEF NumbersFor
      <4>2. \A j \in DOMAIN s : j # 1 => j - 1 \in DOMAIN Tail(s) /\ Tail(s)[j - 1] = s[j]
        BY <1>2, HeadTailProperties DEF S
      <4>3. NumbersFor(s, e) \subseteq NumbersFor(Tail(s), e)
        BY <1>5, <1>8, <4>2 DEF NumbersFor
      <4>. QED  BY <4>1, <4>3
    <3>3. InOrderFor(s, e) => InOrderFor(Tail(s), e)
      BY <1>2, TailFor DEF S
    <3>4. /\ NumbersFor(Buffered(e), e)' = NumbersFor(Tail(s), e)
          /\ InOrderFor(Buffered(e), e)' <=> InOrderFor(Tail(s), e)
      BY <3>1 DEF NumbersFor, InOrderFor
    <3>. QED  BY <3>1, <3>2, <3>3, <3>4
  <2>3. CASE Chan(Peer(e)) # waiting
    <3>1. Buffered(e)' = Buffered(e)
      BY <1>7, <2>1, <2>3 DEF Buffered
    <3>. QED  BY <3>1 DEF NumbersFor, InOrderFor
  <2>. QED  BY <2>2, <2>3
<1>9. ASSUME NEW ch \in Channel, NEW i \in DOMAIN network'[ch]
      PROVE  \E j \in DOMAIN network[ch] : network'[ch][i] = network[ch][j]
  <2>1. CASE ch = waiting
    BY <1>5, <1>7, <1>9, <2>1 DEF s
  <2>2. CASE ch # waiting
    BY <1>7, <1>9, <2>2
  <2>. QED  BY <2>1, <2>2
<1>10. Buffered(m.fd) = s /\ Buffered(m.fd)' = Tail(s)
  BY <1>2, <1>6, <1>7 DEF Buffered, s
<1>11. Buffered(m.fd) # <<>> /\ m = Head(Buffered(m.fd))
       /\ Buffered(m.fd)' = Tail(Buffered(m.fd))
  BY <1>2, <1>5, <1>10
<1>. QED  BY <1>1, <1>4, <1>8, <1>9, <1>11

\* A sequence is its first message and the rest.
LEMMA FirstAndRest ==
  ASSUME NEW s \in Seq(Msg), NEW m \in Msg
  PROVE  /\ <<m>> \o s # <<>> /\ Head(<<m>> \o s) = m /\ Tail(<<m>> \o s) = s
         /\ s # <<>> /\ m = Head(s) => <<m>> \o Tail(s) = s
<1>1. <<m>> \in Seq(Msg) /\ Len(<<m>>) = 1 /\ <<m>>[1] = m
  OBVIOUS
<1>2. ASSUME NEW t \in Seq(Msg)
      PROVE  /\ <<m>> \o t \in Seq(Msg) /\ Len(<<m>> \o t) = 1 + Len(t)
             /\ (<<m>> \o t)[1] = m /\ Len(t) \in Nat
             /\ \A i \in 1 .. Len(t) : (<<m>> \o t)[i + 1] = t[i]
  <2>1. Len(t) \in Nat
    OBVIOUS
  <2>2. /\ <<m>> \o t \in Seq(Msg) /\ Len(<<m>> \o t) = 1 + Len(t)
        /\ \A i \in 1 .. 1 + Len(t) :
             (<<m>> \o t)[i] = IF i <= 1 THEN <<m>>[i] ELSE t[i - 1]
    BY <1>1, ConcatProperties
  <2>. DEFINE p == <<m>> \o t
  <2>. HIDE DEF p
  <2>3. /\ p \in Seq(Msg) /\ Len(p) = 1 + Len(t)
        /\ \A i \in 1 .. 1 + Len(t) : p[i] = IF i <= 1 THEN <<m>>[i] ELSE t[i - 1]
    BY <2>2 DEF p
  <2>4. p[1] = m /\ \A i \in 1 .. Len(t) : p[i + 1] = t[i]
    BY <1>1, <2>1, <2>3
  <2>. QED  BY <2>1, <2>3, <2>4 DEF p
<1>3. <<m>> \o s # <<>> /\ Head(<<m>> \o s) = m /\ Tail(<<m>> \o s) = s
  <2>. DEFINE p == <<m>> \o s
  <2>1. /\ p \in Seq(Msg) /\ Len(p) = 1 + Len(s) /\ p[1] = m /\ Len(s) \in Nat
        /\ \A i \in 1 .. Len(s) : p[i + 1] = s[i]
    BY <1>2
  <2>. HIDE DEF p
  <2>2. p # <<>>
    BY <2>1, EmptySeq
  <2>3. /\ Head(p) = p[1] /\ Tail(p) \in Seq(Msg) /\ Len(Tail(p)) = Len(p) - 1
        /\ \A i \in 1 .. Len(Tail(p)) : Tail(p)[i] = p[i + 1]
    BY <2>1, <2>2, HeadTailProperties
  <2>4. Len(Tail(p)) = Len(s) /\ \A i \in 1 .. Len(s) : Tail(p)[i] = s[i]
    BY <2>1, <2>3
  <2>5. Tail(p) = s
    BY <2>3, <2>4, SeqEqual
  <2>. QED  BY <2>1, <2>2, <2>3, <2>5 DEF p
<1>4. ASSUME s # <<>>, m = Head(s) PROVE <<m>> \o Tail(s) = s
  <2>1. /\ m = s[1] /\ Tail(s) \in Seq(Msg) /\ Len(Tail(s)) = Len(s) - 1
        /\ \A i \in 1 .. Len(Tail(s)) : Tail(s)[i] = s[i + 1]
    BY <1>4, HeadTailProperties
  <2>. DEFINE t == Tail(s)
              p == <<m>> \o t
  <2>2. /\ p \in Seq(Msg) /\ Len(p) = 1 + Len(t) /\ p[1] = m /\ Len(t) \in Nat
        /\ \A i \in 1 .. Len(t) : p[i + 1] = t[i]
    BY <1>2, <2>1
  <2>. HIDE DEF p, t
  <2>3. Len(p) = Len(s) /\ Len(s) \in Nat
    BY <2>1, <2>2 DEF t
  <2>4. ASSUME NEW i \in 1 .. Len(p) PROVE p[i] = s[i]
    <3>1. CASE i = 1
      BY <2>1, <2>2, <3>1
    <3>2. CASE i # 1
      <4>1. i - 1 \in 1 .. Len(t) /\ (i - 1) + 1 = i
        BY <2>2, <2>4, <3>2
      <4>. QED  BY <2>1, <2>2, <4>1 DEF t
    <3>. QED  BY <3>1, <3>2
  <2>5. p = s
    BY <2>2, <2>3, <2>4, SeqEqual
  <2>. QED  BY <2>5 DEF p, t
<1>. QED  BY <1>3, <1>4

\* The message goes from the buffer into the hand.
LEMMA FlowTake ==
  ASSUME ThreadsFlowInv, ThreadsInv', ~overtaken, Take, UNCHANGED inRecover
  PROVE  ThreadsFlowInv'
<1>. USE DEF kernel, tables
<1>1. /\ ThreadsTypeOK /\ FlowMeanwhile /\ Dequeue
      /\ UNCHANGED <<asked, backlog, read, fd_cell, fd_to_channel_status,
                     unintercepted_fd, out>>
  BY DEF ThreadsFlowInv, ThreadsInv, Take, Dequeue
<1>2. PICK m \in Msg : m = HeadMsg
  BY <1>1, DequeueType DEF ThreadsTypeOK
<1>3. /\ m.fd \in End /\ Buffered(m.fd) # <<>> /\ m = Head(Buffered(m.fd))
      /\ Buffered(m.fd)' = Tail(Buffered(m.fd)) /\ delivering = NotDelivering
      /\ delivering' = [at |-> "taken", msg |-> m]
  BY <1>1, <1>2, Dequeued DEF Take
<1>4. delivering'.at = "taken" /\ delivering'.msg = m /\ delivering' # NotDelivering
  BY <1>3, OutOrIn
<1>5. HandNext'
  BY <1>4 DEF HandNext
<1>6. OwnOrdered'
  BY <1>1 DEF FlowMeanwhile, OwnOrdered
<1>7. ASSUME NEW e \in End PROVE Kept(e)
  <2>1. Pending(e) = Buffered(e)
    BY <1>3 DEF Pending, InHandFor
  <2>2. CASE e = m.fd
    <3>1. Pending(e)' = <<m>> \o Tail(Buffered(e))
      BY <1>3, <1>4, <2>2 DEF Pending, InHandFor
    <3>2. <<m>> \o Tail(Buffered(e)) = Buffered(e)
      BY <1>1, <1>3, <2>2, PendingType, FirstAndRest
    <3>3. Pending(e)' = Pending(e)
      BY <2>1, <3>1, <3>2
    <3>. QED  BY <1>1, <3>3 DEF Kept, OwnCount, NumbersFor, InOrderFor
  <2>3. CASE e # m.fd
    <3>1. Pending(e)' = Buffered(e)'
      BY <1>4, <2>3 DEF Pending, InHandFor
    <3>2. /\ NumbersFor(Buffered(e), e)' = NumbersFor(Buffered(e), e)
          /\ InOrderFor(Buffered(e), e) => InOrderFor(Buffered(e), e)'
      BY <1>1, <1>2, <2>3, Dequeued
    <3>. QED  BY <1>1, <2>1, <3>1, <3>2 DEF Kept, OwnCount, NumbersFor, InOrderFor
  <2>. QED  BY <2>2, <2>3
<1>8. \A ch \in Channel : \A i \in DOMAIN network'[ch] :
        \E j \in DOMAIN network[ch] : network'[ch][i] = network[ch][j]
  BY <1>1, <1>2, Dequeued
<1>. QED  BY <1>1, <1>5, <1>6, <1>7, <1>8, FlowHand

\* The message in hand is the next that its end is to receive.
LEMMA InHandIsNext ==
  ASSUME ThreadsTypeOK, NEW e \in End, InHandFor(e), InFlight(e)
  PROVE  /\ delivering.msg.n = OwnCount(e) + 1
         /\ \E last \in 0 .. read[Peer(e)] :
              /\ fd_cell[Peer(e)] \notin unintercepted_fd => last = read[Peer(e)]
              /\ OwnCount(e) + 1 <= last
              /\ NumbersFor(Buffered(e), e) = ((OwnCount(e) + 1) + 1) .. last
              /\ InOrderFor(Buffered(e), e)
<1>. DEFINE s == Buffered(e)
            p == Pending(e)
            k == OwnCount(e)
<1>1. PICK m \in Msg : m = delivering.msg /\ m.fd = e /\ m.n \in Nat
  BY DeliveringType DEF InHandFor
<1>2. p = <<m>> \o s /\ s \in Seq(Msg) /\ p \in Seq(Msg) /\ k \in Nat /\ read[Peer(e)] \in Nat
  BY <1>1, PendingType, CountType DEF Pending, ThreadsTypeOK
<1>3. PICK last \in 0 .. read[Peer(e)] :
        /\ fd_cell[Peer(e)] \notin unintercepted_fd => last = read[Peer(e)]
        /\ k <= last /\ NumbersFor(p, e) = (k + 1) .. last /\ InOrderFor(p, e)
  BY DEF InFlight
<1>4. p # <<>> /\ Head(p) = m /\ Tail(p) = s
  BY <1>2, FirstAndRest
<1>. HIDE DEF s, p, k
<1>5. /\ InOrderFor(s, e) /\ NumbersFor(p, e) = NumbersFor(s, e) \cup {m.n}
      /\ \A n \in NumbersFor(s, e) : m.n < n
  <2>1. /\ InOrderFor(Tail(p), e)
        /\ Head(p).fd = e =>
             /\ NumbersFor(p, e) = NumbersFor(Tail(p), e) \cup {Head(p).n}
             /\ \A n \in NumbersFor(Tail(p), e) : Head(p).n < n
    BY <1>2, <1>3, <1>4, TailFor
  <2>. QED  BY <1>1, <1>4, <2>1
<1>6. m.n = k + 1 /\ k + 1 <= last /\ last \in Nat
  <2>0. m.n \in NumbersFor(p, e)
    BY <1>5
  <2>1. last \in Nat /\ m.n \in (k + 1) .. last
    BY <1>2, <1>3, <2>0
  <2>2. k + 1 \in (k + 1) .. last
    BY <1>1, <1>2, <2>1
  <2>3. k + 1 = m.n \/ m.n < k + 1
    BY <1>3, <1>5, <2>2
  <2>. QED  BY <1>1, <1>2, <2>1, <2>3
<1>7. NumbersFor(s, e) = ((k + 1) + 1) .. last
  <2>1. ASSUME NEW n \in NumbersFor(s, e) PROVE n \in ((k + 1) + 1) .. last
    <3>1. n \in (k + 1) .. last /\ k + 1 < n
      BY <1>3, <1>5, <1>6
    <3>. QED  BY <1>2, <1>6, <3>1
  <2>2. ASSUME NEW n \in ((k + 1) + 1) .. last PROVE n \in NumbersFor(s, e)
    <3>1. n \in (k + 1) .. last /\ n # k + 1
      BY <1>2, <1>6
    <3>. QED  BY <1>3, <1>5, <1>6, <3>1
  <2>. QED  BY <2>1, <2>2
<1>. QED  BY <1>1, <1>3, <1>5, <1>6, <1>7 DEF s, k

\* The message in hand is written, to its own connection or, if that is closed,
\* to another.
LEMMA FlowWrite ==
  ASSUME ThreadsFlowInv, ThreadsInv', ~overtaken, delivering # NotDelivering,
         delivering.at \in {"checked", "loaded"}, delivering' = NotDelivering,
         UNCHANGED <<kernel, read, tables, buffers, inRecover>>,
         NEW to \in End, Accepted(to), NEW item \in Item,
         item.from = delivering.msg.from, item.n = delivering.msg.n, ~item.raw,
         out' = [out EXCEPT ![to] = Append(@, item)],
         fd_cell[delivering.msg.fd] # NoFd => to = delivering.msg.fd
  PROVE  ThreadsFlowInv'
<1>. USE DEF kernel, tables, buffers
<1>1. ThreadsTypeOK /\ TypeOK /\ FlowMeanwhile
  BY DEF ThreadsFlowInv, ThreadsInv, ThreadsTypeOK
<1>2. PICK e \in End : e = delivering.msg.fd /\ item.from = Peer(e) /\ item.n = OwnCount(e) + 1
  BY <1>1, DeliveringType DEF ThreadsFlowInv, ThreadsInv, InHand, FlowMeanwhile, HandNext
<1>3. Peer(to) = Peer(e) => to = e
  BY <1>2, PeerFacts
<1>4. /\ OwnOrdered' /\ \A x \in End : out'[x] # out[x] => x = to
      /\ \A x \in End : OwnCount(x)' = OwnCount(x)
           + (IF x = to /\ ~item.raw /\ item.from = Peer(x) THEN 1 ELSE 0)
  BY <1>1, <1>2, <1>3, OwnWrite DEF FlowMeanwhile
<1>5. HandNext'
  BY DEF HandNext
<1>6. ASSUME NEW x \in End, x # e PROVE Kept(x)
  <2>1. OwnCount(x)' = OwnCount(x)
    <3>1. OwnCount(x) \in Nat /\ ~(x = to /\ item.from = Peer(x))
      BY <1>1, <1>2, <1>3, <1>6, CountType
    <3>. QED  BY <1>4, <3>1
  <2>2. Pending(x)' = Pending(x)
    BY <1>2, <1>6 DEF Pending, InHandFor, Buffered
  <2>. QED  BY <2>1, <2>2 DEF Kept, NumbersFor, InOrderFor
<1>7. ASSUME Flowing(e) PROVE InFlight(e)'
  <2>1. InHandFor(e) /\ InFlight(e) /\ to = e
    BY <1>1, <1>2, <1>7 DEF InHandFor, FlowMeanwhile, FramesFollow, Flowing
  <2>2. OwnCount(e)' = OwnCount(e) + 1
    BY <1>2, <1>4, <2>1
  <2>3. Pending(e)' = Buffered(e)
    BY DEF Pending, InHandFor, Buffered
  <2>4. PICK last \in 0 .. read[Peer(e)] :
          /\ fd_cell[Peer(e)] \notin unintercepted_fd => last = read[Peer(e)]
          /\ OwnCount(e) + 1 <= last
          /\ NumbersFor(Buffered(e), e) = ((OwnCount(e) + 1) + 1) .. last
          /\ InOrderFor(Buffered(e), e)
    BY <1>1, <2>1, InHandIsNext
  <2>5. /\ NumbersFor(Pending(e), e)' = NumbersFor(Buffered(e), e)
        /\ InOrderFor(Pending(e), e)'
    BY <2>3, <2>4 DEF NumbersFor, InOrderFor
  <2>. QED  BY <2>2, <2>4, <2>5 DEF InFlight
<1>8. \A x \in End : Accepted(x) \/ out'[x] = out[x]
  BY <1>4
<1>. QED  BY <1>4, <1>5, <1>6, <1>7, <1>8, FlowHand

\* The message in hand goes on, or is dropped because its connection is.
LEMMA FlowHandMoves ==
  ASSUME ThreadsFlowInv, ThreadsInv', ~overtaken, delivering # NotDelivering,
         UNCHANGED <<kernel, read, out, tables, buffers, inRecover>>,
         \/ delivering' = NotDelivering /\ ~Flowing(delivering.msg.fd)
         \/ delivering' # NotDelivering /\ delivering'.msg = delivering.msg,
         HandNext'
  PROVE  ThreadsFlowInv'
<1>. USE DEF kernel, tables, buffers
<1>1. OwnOrdered'
  BY DEF ThreadsFlowInv, FlowMeanwhile, OwnOrdered
<1>2. ASSUME NEW x \in End, Flowing(x) PROVE Kept(x)
  <2>1. Pending(x)' = Pending(x)
    BY <1>2 DEF Pending, InHandFor, Buffered
  <2>. QED  BY <2>1 DEF Kept, OwnCount, NumbersFor, InOrderFor
<1>. QED  BY <1>1, <1>2, FlowHand

\* A message found deliverable is the next of its connection; one that is not
\* is dropped, and its connection is cut.
LEMMA FlowLookUp ==
  ASSUME ThreadsFlowInv, ThreadsInv', ~overtaken, LookUp, UNCHANGED inRecover
  PROVE  ThreadsFlowInv'
<1>. DEFINE m == delivering.msg
            e == m.fd
<1>1. /\ ThreadsTypeOK /\ TypeOK /\ FlowMeanwhile /\ delivering.at = "taken"
      /\ delivering # NotDelivering /\ recovering = NotRecovering
      /\ UNCHANGED <<kernel, read, out, tables, buffers>>
  BY OutOrIn DEF ThreadsFlowInv, ThreadsInv, ThreadsTypeOK, LookUp, At, vars, OneAtATime
<1>2. e \in End /\ Peer(e) \in End /\ Peer(Peer(e)) = e
  BY <1>1, DeliveringType, PeerFacts
<1>3. CASE Deliverable(m)
  <2>1. delivering' = [at |-> "checked", msg |-> m]
    <3>1. delivering \in [at : {"taken", "checked", "failed"}, msg : Msg]
      BY <1>1 DEF ThreadsTypeOK
    <3>. QED  BY <1>3, <3>1 DEF LookUp
  <2>2. delivering' # NotDelivering /\ delivering'.msg = m
    BY <2>1, OutOrIn
  <2>3. Flowing(e)
    <3>1. fd_cell[e] \in Fd /\ ~Disconnected(fd_cell[e]) /\ fd_cell[e] # NoFd
      BY <1>3, Sentinels DEF Deliverable
    <3>2. fd_cell[Peer(e)] # NoFd
      BY <1>1, <1>2, <3>1 DEF ThreadsFlowInv, ThreadsInv, TablesMeanwhile, Paired
    <3>3. ~Disconnected(fd_cell[Peer(e)])
      BY <1>1, <1>2, <3>1, <3>2 DEF FlowMeanwhile, TagsTogether, Cut
    <3>. QED  BY <1>1, <3>1, <3>2, <3>3 DEF Flowing, Cut
  <2>4. m.n = OwnCount(e) + 1
    BY <1>1, <1>2, <2>3, InHandIsNext DEF FlowMeanwhile, FramesFollow, InHandFor
  <2>5. OwnCount(e)' = OwnCount(e)
    <3>1. out' = out
      BY <1>1
    <3>2. PICK x \in End : x = e /\ x = (delivering.msg.fd)'
      BY <1>2, <2>2
    <3>. QED  BY <2>2, <3>1 DEF OwnCount
  <2>6. HandNext'
    BY <2>2, <2>4, <2>5 DEF HandNext
  <2>. QED  BY <1>1, <2>2, <2>6, FlowHandMoves
<1>4. CASE ~Deliverable(m)
  <2>1. delivering' = NotDelivering
    BY <1>4 DEF LookUp
  <2>2. ~Flowing(e)
    BY <1>2, <1>4, FlowingSocket DEF ThreadsFlowInv, Deliverable
  <2>3. HandNext'
    BY <2>1 DEF HandNext
  <2>. QED  BY <1>1, <2>1, <2>2, <2>3, FlowHandMoves
<1>. QED  BY <1>3, <1>4

\* Entries of both ends of connections are marked.
LEMMA FlowTag ==
  ASSUME ThreadsFlowInv, ThreadsInv', ~overtaken, NEW F \in SUBSET Fd, PairsIn(F), Tag(F),
         UNCHANGED <<asked, backlog, read, out, network, overtaken>>,
         CutStays, HandNext', \A e \in End : Flowing(e)' => Kept(e)
  PROVE  ThreadsFlowInv'
<1>1. /\ ThreadsTypeOK /\ ThreadsTypeOK' /\ TypeOK /\ FlowMeanwhile /\ ConnectedOnce
      /\ CellsMeanwhile /\ CellsMeanwhile'
  BY DEF ThreadsFlowInv, ThreadsInv, ThreadsTypeOK, TablesMeanwhile
<1>2. NoneOpened /\ AcceptedStay /\ OwnOrdered'
  BY <1>1, AcceptedStays DEF NoneOpened, Tag, FlowMeanwhile, OwnOrdered
<1>3. \A f \in Fd : Disconnected(f)' = IF f \in F THEN TRUE ELSE Disconnected(f)
  BY DEF Tag, Disconnected
<1>4. TagsTogether'
  <2>1. ASSUME NEW e \in End, NEW f \in Fd, NEW g \in Fd, f = fd_cell[e],
               g = fd_cell[Peer(e)], Disconnected(f)', ~Disconnected(f)
        PROVE  Disconnected(g)'
    <3>1. f \in F /\ f # NoFd /\ g # NoFd
      BY <1>3, <2>1, Sentinels
    <3>2. EndOf(f) = e
      BY <1>1, <2>1, <3>1 DEF CellsMeanwhile
    <3>. QED  BY <1>3, <2>1, <3>1, <3>2 DEF PairsIn
  <2>. QED  BY <1>1, <1>2, <2>1, TagsKeep DEF FlowMeanwhile
<1>. QED  BY <1>1, <1>2, <1>4, FlowQuiet

\* A frame that cannot be written is the last its connection carries.
LEMMA FlowCloseOnError ==
  ASSUME ThreadsFlowInv, ThreadsInv', ~overtaken, CloseOnError, UNCHANGED inRecover
  PROVE  ThreadsFlowInv'
<1>. USE DEF kernel, buffers
<1>. DEFINE m == delivering.msg
            f == fd_cell[m.fd]
<1>1. /\ ThreadsTypeOK /\ TypeOK /\ FlowMeanwhile /\ EntriesMeanwhile /\ CellsMeanwhile
      /\ delivering # NotDelivering /\ delivering' = NotDelivering
      /\ UNCHANGED <<kernel, read, out, buffers, recovering, overtaken>>
  BY OutOrIn DEF ThreadsFlowInv, ThreadsInv, ThreadsTypeOK, TablesMeanwhile, CloseOnError, At,
     inRecover
<1>2. m.fd \in End
  BY <1>1, DeliveringType
<1>3. HandNext'
  BY <1>1 DEF HandNext
<1>4. CASE f \in Fd /\ HasEntry(f)
  <2>0. PICK h \in Fd : h = f
    BY <1>4
  <2>1. Tag(Pair(h)) /\ Pair(h) \in SUBSET Fd /\ PairsIn(Pair(h)) /\ h \in Pair(h)
    BY <1>1, <1>4, <2>0, PairIsIn DEF CloseOnError, Pair
  <2>2. \A g \in Fd : Disconnected(g)' = IF g \in Pair(h) THEN TRUE ELSE Disconnected(g)
    BY <2>1 DEF Tag, Disconnected
  <2>3. CutStays
    BY <1>1, <2>2 DEF CutStays, Cut, Held
  <2>4. ASSUME NEW e \in End, Flowing(e)' PROVE Kept(e)
    <3>1. fd_cell' = fd_cell /\ unintercepted_fd' = unintercepted_fd
      BY <2>1 DEF Tag
    <3>2. Disconnected(h)'
      BY <2>1, <2>2
    <3>3. fd_cell'[e] # h
      BY <2>4, <3>2 DEF Flowing, Cut, Disconnected
    <3>4. e # m.fd
      BY <2>0, <3>1, <3>3
    <3>5. Pending(e)' = Pending(e)
      BY <1>1, <3>4 DEF Pending, InHandFor, Buffered
    <3>. QED  BY <1>1, <3>1, <3>5 DEF Kept, OwnCount, NumbersFor, InOrderFor
  <2>. QED  BY <1>1, <1>3, <2>1, <2>3, <2>4, FlowTag
<1>5. CASE ~(f \in Fd /\ HasEntry(f))
  <2>1. UNCHANGED tables
    BY <1>5 DEF CloseOnError
  <2>2. ~Flowing(m.fd)
    BY <1>2, <1>5, FlowingSocket DEF ThreadsFlowInv
  <2>. QED  BY <1>1, <1>3, <2>1, <2>2, FlowHandMoves
<1>. QED  BY <1>4, <1>5

LEMMA FlowDelivering ==
  ASSUME ThreadsFlowInv, ThreadsInv', ~overtaken, Delivering, UNCHANGED inRecover
  PROVE  ThreadsFlowInv'
<1>. DEFINE m == delivering.msg
<1>1. ThreadsTypeOK /\ TypeOK /\ FlowMeanwhile
  BY DEF ThreadsFlowInv, ThreadsInv, ThreadsTypeOK
<1>2. ASSUME NEW place, At(place), place # "out"
      PROVE  delivering.at = place /\ delivering # NotDelivering
  BY <1>2, OutOrIn DEF At
<1>3. CASE Take
  BY <1>3, FlowTake
<1>4. CASE LookUp
  BY <1>4, FlowLookUp
<1>5. CASE LoadFd
  <2>1. /\ delivering # NotDelivering /\ delivering.at = "checked"
        /\ UNCHANGED <<kernel, read, out, tables, buffers>>
        /\ delivering' = [at |-> "loaded", msg |-> m, fd |-> fd_cell[m.fd]]
    BY <1>2, <1>5 DEF LoadFd, vars
  <2>2. delivering' # NotDelivering /\ delivering'.msg = m
    BY <2>1, OutOrIn
  <2>3. HandNext'
    BY <1>1, <2>1, <2>2 DEF FlowMeanwhile, HandNext, OwnCount
  <2>. QED  BY <2>1, <2>2, <2>3, FlowHandMoves
<1>6. CASE EmptyBody
  <2>1. delivering # NotDelivering /\ delivering.at = "checked"
        /\ UNCHANGED <<kernel, sent, read, up, tables, buffers>>
    BY <1>2, <1>6 DEF EmptyBody
  <2>2. CASE /\ delivering' = NotDelivering
             /\ out' = [out EXCEPT ![m.fd] =
                          Append(@, [from |-> m.from, n |-> m.n, raw |-> FALSE, whole |-> TRUE])]
    <3>1. PICK to \in End, item \in Item :
            /\ to = m.fd /\ item = [from |-> m.from, n |-> m.n, raw |-> FALSE, whole |-> TRUE]
      BY <1>1, <2>1, DeliveringType DEF Item
    <3>2. /\ out' = [out EXCEPT ![to] = Append(@, item)]
          /\ item.from = m.from /\ item.n = m.n /\ ~item.raw /\ Accepted(to)
      BY <2>1, <2>2, <3>1 DEF ThreadsFlowInv, ThreadsInv, InHand
    <3>. QED  BY <2>1, <2>2, <3>1, <3>2, FlowWrite
  <2>3. CASE delivering' = [delivering EXCEPT !.at = "failed"] /\ out' = out
    <3>1. delivering' = [at |-> "failed", msg |-> m]
      <4>1. delivering \in [at : {"taken", "checked", "failed"}, msg : Msg]
        BY <1>1, <2>1 DEF ThreadsTypeOK
      <4>. QED  BY <2>3, <4>1
    <3>2. delivering' # NotDelivering /\ delivering'.msg = m /\ HandNext'
      BY <3>1, OutOrIn DEF HandNext
    <3>. QED  BY <2>1, <2>3, <3>2, FlowHandMoves
  <2>. QED  BY <1>6, <2>2, <2>3 DEF EmptyBody
<1>7. CASE WriteDone
  <2>1. /\ delivering # NotDelivering /\ delivering.at = "loaded"
        /\ UNCHANGED <<kernel, sent, read, up, tables, buffers>>
        /\ delivering' = NotDelivering
        /\ delivering.fd \in Fd /\ sock[delivering.fd] \in End
    BY <1>2, <1>7 DEF WriteDone, OnConnection
  <2>2. PICK to \in End, item \in Item :
          /\ to = sock[delivering.fd]
          /\ item = [from |-> m.from, n |-> m.n, raw |-> FALSE, whole |-> TRUE]
    BY <1>1, <2>1, DeliveringType DEF Item
  <2>3. /\ out' = [out EXCEPT ![to] = Append(@, item)]
        /\ item.from = m.from /\ item.n = m.n /\ ~item.raw
    BY <1>7, <2>2 DEF WriteDone, WriteItem
  <2>4. m.fd \in End /\ fd_cell[m.fd] \in {delivering.fd, NoFd}
    BY <1>1, <2>1, DeliveringType DEF ThreadsFlowInv, ThreadsInv, InHand
  <2>5. recovering = NotRecovering
    BY <2>1 DEF ThreadsFlowInv, ThreadsInv, OneAtATime
  <2>6. fd_cell[m.fd] # NoFd => to = m.fd
    BY <1>1, <2>2, <2>4, <2>5, WriteReaches DEF ThreadsFlowInv, ThreadsInv
  <2>7. Accepted(to)
    <3>1. HasEntry(delivering.fd)
      BY <2>1 DEF ThreadsFlowInv, ThreadsInv, TablesMeanwhile, SocketsMeanwhile
    <3>. QED  BY <2>1, <2>2, <3>1, Reading DEF ThreadsFlowInv
  <2>. QED  BY <2>1, <2>3, <2>6, <2>7, FlowWrite
<1>8. CASE WriteFailed
  <2>1. /\ delivering # NotDelivering
        /\ UNCHANGED <<kernel, read, out, tables, buffers>>
        /\ delivering' = [at |-> "failed", msg |-> m]
    BY <1>2, <1>8 DEF WriteFailed, vars
  <2>2. delivering' # NotDelivering /\ delivering'.msg = m /\ HandNext'
    BY <2>1, OutOrIn DEF HandNext
  <2>. QED  BY <2>1, <2>2, FlowHandMoves
<1>9. CASE CloseOnError
  BY <1>9, FlowCloseOnError
<1>. QED  BY <1>3, <1>4, <1>5, <1>6, <1>7, <1>8, <1>9 DEF Delivering

-----------------------------------------------------------------------------
(* What flows while recover closes connections, and the other commands.      *)

\* What is left to show of a step that closes, and marks nothing.
LEMMA FlowRecover ==
  ASSUME ThreadsFlowInv, ThreadsInv', ~overtaken, NoneOpened, CutStays,
         UNCHANGED <<asked, backlog, read, out, network, delivering, overtaken>>,
         \A f \in Fd : HasEntry(f) /\ HasEntry(f)' /\ Disconnected(f)' => Disconnected(f),
         \A f \in Fd : f \in unintercepted_fd => f \in unintercepted_fd' \/ Cut(f)
  PROVE  ThreadsFlowInv'
<1>1. /\ ThreadsTypeOK /\ ThreadsTypeOK' /\ TypeOK /\ FlowMeanwhile /\ ConnectedOnce
      /\ CellsMeanwhile /\ CellsMeanwhile'
  BY DEF ThreadsFlowInv, ThreadsInv, ThreadsTypeOK, TablesMeanwhile
<1>2. AcceptedStay /\ HandNext' /\ OwnOrdered'
  BY <1>1, AcceptedStays, HandStays
<1>3. TagsTogether'
  BY <1>1, TagsKeep DEF FlowMeanwhile
<1>4. ASSUME NEW e \in End, Flowing(e), fd_cell'[Peer(e)] = fd_cell[Peer(e)]
      PROVE  Kept(e)
  <2>1. Peer(e) \in End
    BY PeerFacts
  <2>2. PICK f \in Fd : f = fd_cell[Peer(e)] /\ ~Cut(f)
    BY <1>1, <1>4, <2>1 DEF TypeOK, Flowing
  <2>. QED  BY <1>4, <2>2, KeptSame DEF OwnCount
<1>. QED  BY <1>1, <1>2, <1>3, <1>4, FlowQuiet

LEMMA FlowLookUpNext ==
  ASSUME ThreadsFlowInv, ThreadsInv', ~overtaken, LookUpNext, UNCHANGED <<delivering, overtaken>>
  PROVE  ThreadsFlowInv'
<1>. USE DEF kernel, buffers
<1>1. /\ ThreadsTypeOK /\ EntriesMeanwhile /\ CellsMeanwhile /\ FlowMeanwhile
      /\ recovering.at = "next" /\ recovering.its = <<>>
      /\ UNCHANGED <<kernel, sent, read, out, up, buffers>>
  BY DEF ThreadsFlowInv, ThreadsInv, TablesMeanwhile, LookUpNext, InRecover, ItsKept
<1>2. recovering # NotRecovering /\ \A f : ~Held(f)
  BY <1>1, OutOrIn DEF Held
<1>3. recovering \in [at : {"next", "close", "clear", "erase"}, todo : SUBSET Fd,
                       its : Seq(Fd), dangling : SUBSET Fd]
  BY <1>1, <1>2 DEF ThreadsTypeOK
<1>4. ASSUME NEW f \in Fd, FindIts(f) PROVE ThreadsFlowInv'
  <2>1. /\ Tag(Pair(f)) /\ Pair(f) \in SUBSET Fd /\ PairsIn(Pair(f)) /\ f \in Pair(f)
    BY <1>1, <1>4, PairIsIn DEF FindIts, Pair
  <2>2. recovering'.todo = recovering.todo \ {f} /\ recovering'.at = "close"
    BY <1>3, <1>4 DEF FindIts
  <2>3. recovering' # NotRecovering
    BY <2>2, OutOrIn
  <2>4. \A g \in Fd : Disconnected(g)' = IF g \in Pair(f) THEN TRUE ELSE Disconnected(g)
    BY <2>1 DEF Tag, Disconnected
  <2>5. CutStays
    <3>1. ASSUME NEW g \in Fd, Cut(g) PROVE Cut(g)'
      <4>1. Disconnected(g) \/ g \in recovering.todo
        BY <1>2, <3>1 DEF Cut
      <4>2. CASE Disconnected(g) \/ g = f
        BY <2>1, <2>4, <4>2 DEF Cut
      <4>3. CASE g \in recovering.todo /\ g # f
        BY <2>2, <2>3, <4>3 DEF Cut
      <4>. QED  BY <4>1, <4>2, <4>3
    <3>. QED  BY <3>1 DEF CutStays
  <2>6. HandNext'
    BY <1>1, HandStays
  <2>7. UNCHANGED <<fd_cell, unintercepted_fd>>
    BY <2>1 DEF Tag
  <2>8. \A e \in End : Kept(e)
    BY <1>1, <2>7, KeptSame DEF OwnCount
  <2>. QED  BY <1>1, <2>1, <2>5, <2>6, <2>8, FlowTag
<1>5. ASSUME NEW f \in Fd, NotFound(f) PROVE ThreadsFlowInv'
  <2>1. /\ ~HasEntry(f) /\ UNCHANGED <<fd_cell, fd_to_channel_status, unintercepted_fd>>
        /\ recovering'.todo = recovering.todo \ {f} /\ recovering'.at = "next"
    BY <1>1, <1>3, <1>5 DEF NotFound
  <2>2. recovering' # NotRecovering
    BY <2>1, OutOrIn
  <2>3. CutStays
    BY <1>2, <2>1, <2>2 DEF CutStays, Cut, Disconnected
  <2>. QED  BY <1>1, <2>1, <2>3, FlowRecover DEF NoneOpened, Disconnected
<1>6. CASE recovering.todo = {} /\ recovering' = NotRecovering /\ UNCHANGED tables
  <2>1. UNCHANGED <<fd_cell, fd_to_channel_status, unintercepted_fd>>
    BY <1>6 DEF tables
  <2>2. CutStays
    BY <1>2, <1>6, <2>1 DEF CutStays, Cut, Disconnected
  <2>. QED  BY <1>1, <2>1, <2>2, FlowRecover DEF NoneOpened, Disconnected
<1>. QED  BY <1>4, <1>5, <1>6 DEF LookUpNext

\* The three parts of do_close, for an entry that is cut.
LEMMA FlowDoClose ==
  ASSUME ThreadsFlowInv, ThreadsInv', ~overtaken, CloseFd \/ ClearCell \/ EraseIt,
         UNCHANGED <<delivering, overtaken>>
  PROVE  ThreadsFlowInv'
<1>. USE DEF kernel, buffers
<1>1. /\ ThreadsTypeOK /\ TypeOK /\ ItsKept /\ recovering.at \in Places
      /\ UNCHANGED <<kernel, sent, read, out, up, buffers>>
  BY DEF ThreadsFlowInv, ThreadsInv, ThreadsTypeOK, CloseFd, ClearCell, EraseIt, Alive, InRecover,
     Places
<1>2. recovering # NotRecovering
  BY <1>1, OutOrIn DEF Places
<1>3. recovering \in [at : {"next", "close", "clear", "erase"}, todo : SUBSET Fd,
                       its : Seq(Fd), dangling : SUBSET Fd]
  BY <1>1, <1>2 DEF ThreadsTypeOK
<1>4. PICK its \in Seq(Fd) : its = recovering.its /\ Len(its) \in 1 .. 2
  BY <1>1, <1>3 DEF ItsKept
<1>5. PICK h \in Fd : h = Closing /\ h = its[1] /\ 1 \in DOMAIN its
  BY <1>4 DEF Closing
<1>6. Cut(h)
  BY <1>2, <1>4, <1>5 DEF Cut, Held
<1>7. CASE CloseFd
  <2>1. /\ unintercepted_fd' = unintercepted_fd \ {h}
        /\ UNCHANGED <<fd_cell, fd_to_channel_status>>
        /\ recovering' = [recovering EXCEPT !.at = "clear"]
    BY <1>5, <1>7 DEF CloseFd, EraseUnintercepted
  <2>2. /\ recovering'.at = "clear" /\ recovering'.todo = recovering.todo
        /\ recovering'.its = recovering.its
    BY <1>3, <2>1
  <2>3. recovering' # NotRecovering
    BY <2>2, OutOrIn
  <2>4. CutStays
    BY <2>1, <2>2, <2>3, CutEntries DEF Disconnected
  <2>. QED  BY <1>1, <1>6, <2>1, <2>4, FlowRecover DEF NoneOpened, Disconnected
<1>8. CASE ClearCell
  <2>1. /\ fd_cell' = [e \in End |->
             IF \E f \in {Closing} : EndOf(f) = e THEN NoFd ELSE fd_cell[e]]
        /\ UNCHANGED <<unintercepted_fd, fd_to_channel_status>>
        /\ recovering' = [recovering EXCEPT !.at = "erase"]
    BY <1>8 DEF ClearCell, ClearCells
  <2>2. /\ recovering'.at = "erase" /\ recovering'.todo = recovering.todo
        /\ recovering'.its = recovering.its
    BY <1>3, <2>1
  <2>3. recovering' # NotRecovering
    BY <2>2, OutOrIn
  <2>4. CutStays
    BY <2>1, <2>2, <2>3, CutEntries DEF Disconnected
  <2>5. NoneOpened
    BY <2>1 DEF NoneOpened
  <2>. QED  BY <1>1, <2>1, <2>4, <2>5, FlowRecover DEF Disconnected
<1>9. CASE EraseIt
  <2>1. /\ fd_to_channel_status' = [f \in Fd |->
             IF f = h THEN NoEntry ELSE fd_to_channel_status[f]]
        /\ UNCHANGED <<fd_cell, unintercepted_fd>>
        /\ recovering' = [recovering EXCEPT !.its = Tail(@),
             !.at = IF Len(recovering.its) = 1 THEN "next" ELSE "close"]
    BY <1>5, <1>9 DEF EraseIt, EraseEntries
  <2>2. \A f \in Fd : HasEntry(f)' => f # h /\ Disconnected(f)' = Disconnected(f)
    BY <2>1 DEF HasEntry, Disconnected
  <2>3. /\ recovering'.todo = recovering.todo /\ recovering'.its = Tail(its)
        /\ recovering'.at \in {"next", "close"}
    BY <1>3, <1>4, <2>1
  <2>4. recovering' # NotRecovering
    BY <2>3, OutOrIn
  <2>5. \A f : Held(f) /\ f # h => Held(f)'
    <3>1. ASSUME NEW f, Held(f), f # h PROVE Held(f)'
      <4>1. PICK i \in DOMAIN its : its[i] = f
        BY <1>4, <3>1 DEF Held
      <4>2. i \in 1 .. Len(its) /\ i # 1 /\ its # <<>>
        BY <1>4, <1>5, <3>1, <4>1
      <4>3. /\ DOMAIN Tail(its) = 1 .. (Len(its) - 1)
            /\ \A j \in 1 .. (Len(its) - 1) : Tail(its)[j] = its[j + 1]
        BY <1>4, <4>2, HeadTailProperties
      <4>4. PICK j \in 1 .. (Len(its) - 1) : j + 1 = i
        <5>1. i - 1 \in 1 .. (Len(its) - 1) /\ (i - 1) + 1 = i
          BY <1>4, <4>2
        <5>. QED  BY <5>1
      <4>5. j \in DOMAIN Tail(its) /\ Tail(its)[j] = f
        BY <4>1, <4>3, <4>4
      <4>. QED  BY <2>3, <4>5 DEF Held
    <3>. QED  BY <3>1
  <2>6. CutStays
    BY <2>2, <2>3, <2>4, <2>5 DEF CutStays, Cut
  <2>. QED  BY <1>1, <2>1, <2>2, <2>6, FlowRecover DEF NoneOpened
<1>. QED  BY <1>7, <1>8, <1>9

LEMMA FlowRecovering ==
  ASSUME ThreadsFlowInv, ThreadsInv', ~overtaken, Recovering, UNCHANGED <<delivering, overtaken>>
  PROVE  ThreadsFlowInv'
<1>. USE DEF kernel, tables, buffers
<1>1. CASE UseErased
  <2>1. UNCHANGED <<asked, backlog, read, out, network, fd_cell, fd_to_channel_status,
                    unintercepted_fd, recovering>>
    BY <1>1 DEF UseErased
  <2>2. CutStays
    BY <2>1, CutEntries DEF Disconnected
  <2>. QED  BY <2>1, <2>2, FlowRecover DEF NoneOpened, Disconnected
<1>. QED  BY <1>1, FlowLookUpNext, FlowDoClose DEF Recovering

\* The marks are taken and the buffers emptied of the connections that recover
\* is to close; no other channel leads from its node.
LEMMA FlowCollect ==
  ASSUME ThreadsFlowInv, ThreadsInv', ~overtaken, NEW node \in Node, Collect(node),
         delivering = NotDelivering, recovering = NotRecovering,
         UNCHANGED <<delivering, overtaken>>
  PROVE  ThreadsFlowInv'
<1>. USE DEF kernel
<1>. DEFINE mine == EntriesOf(node)
            cleared == {Chan(EndOf(f)) : f \in mine}
<1>1. /\ ThreadsTypeOK /\ ThreadsTypeOK' /\ TypeOK /\ FlowMeanwhile /\ ConnectedOnce
      /\ CellsMeanwhile /\ CellsMeanwhile'
  BY DEF ThreadsFlowInv, ThreadsInv, ThreadsTypeOK, TablesMeanwhile
<1>2. /\ fd_to_channel_status' = [f \in Fd |->
            IF f \in mine THEN [self_fd |-> EndOf(f), disconnected |-> FALSE]
                          ELSE fd_to_channel_status[f]]
      /\ network' = [ch \in Channel |->
                        IF ch \in cleared THEN <<>> ELSE network[ch]]
      /\ recovering' = [at |-> "next", todo |-> mine, its |-> <<>>, dangling |-> {}]
      /\ UNCHANGED <<kernel, sent, read, out, up, fd_cell, unintercepted_fd>>
  BY DEF Collect
<1>3. recovering'.todo = mine /\ recovering'.at = "next"
  BY <1>2
<1>4. recovering' # NotRecovering
  BY <1>3, OutOrIn
<1>5. \A f \in Fd : Disconnected(f)' = IF f \in mine THEN FALSE ELSE Disconnected(f)
  BY <1>2 DEF Disconnected
<1>6. \A f \in mine : Chan(EndOf(f))[1] = node
  BY DEF EntriesOf
<1>7. \A f \in Fd : HasEntry(f) /\ Chan(EndOf(f))[1] = node => f \in mine
  BY DEF EntriesOf
<1>8. \A ch \in cleared : ch[1] = node
  BY <1>6
<1>. HIDE DEF mine, cleared
<1>9. NoneOpened /\ AcceptedStay /\ HandNext' /\ OwnOrdered'
  BY <1>1, <1>2, AcceptedStays, HandStays DEF NoneOpened
<1>10. CutStays
  <2>1. ASSUME NEW f \in Fd, Cut(f) PROVE Cut(f)'
    <3>1. CASE f \in mine
      BY <1>3, <1>4, <3>1 DEF Cut
    <3>2. CASE f \notin mine
      BY <1>5, <2>1, <3>2 DEF Cut
    <3>. QED  BY <3>1, <3>2
  <2>. QED  BY <2>1 DEF CutStays
<1>11. TagsTogether'
  <2>1. \A f \in Fd : Disconnected(f)' => Disconnected(f)
    BY <1>5
  <2>. QED  BY <1>1, <1>9, <1>10, <2>1, TagsKeep DEF FlowMeanwhile
<1>12. \A ch \in Channel : \A i \in DOMAIN network'[ch] :
         \E j \in DOMAIN network[ch] : network'[ch][i] = network[ch][j]
  <2>1. DOMAIN <<>> = {}
    OBVIOUS
  <2>2. \A ch \in Channel : network'[ch] = <<>> \/ network'[ch] = network[ch]
    BY <1>2
  <2>. QED  BY <2>1, <2>2
<1>13. ASSUME NEW e \in End, Flowing(e)' PROVE Kept(e)
  <2>1. Peer(e) \in End /\ Chan(Peer(e)) \in Channel
    BY PeerFacts, ChanType
  <2>2. PICK f \in Fd : /\ f = fd_cell[Peer(e)] /\ f = fd_cell'[Peer(e)] /\ f # NoFd
    BY <1>1, <1>2, <1>13, <2>1 DEF TypeOK, Flowing
  <2>3. HasEntry(f) /\ EndOf(f) = Peer(e)
    BY <1>1, <2>1, <2>2 DEF CellsMeanwhile
  <2>4. ~Cut(f)'
    BY <1>13, <2>2 DEF Flowing, Cut, Held, Disconnected
  <2>5. f \notin mine
    BY <1>3, <1>4, <2>4 DEF Cut
  <2>6. Chan(Peer(e)) \notin cleared
    BY <1>7, <1>8, <2>3, <2>5
  <2>7. Buffered(e)' = Buffered(e)
    BY <1>2, <2>1, <2>6 DEF Buffered
  <2>. QED  BY <1>2, <2>7, PendingSame DEF Kept, OwnCount
<1>. QED  BY <1>1, <1>2, <1>9, <1>10, <1>11, <1>12, <1>13, FlowQuiet

LEMMA FlowOther ==
  ASSUME ThreadsFlowInv, ThreadsInv', ~overtaken, OtherCommands
  PROVE  ThreadsFlowInv'
<1>. USE DEF kernel, tables, buffers
<1>1. /\ ThreadsTypeOK /\ TypeOK /\ FlowMeanwhile /\ EntriesMeanwhile /\ CellsMeanwhile
      /\ delivering = NotDelivering /\ recovering = NotRecovering
      /\ UNCHANGED <<delivering, overtaken>>
  BY DEF ThreadsFlowInv, ThreadsInv, ThreadsTypeOK, TablesMeanwhile, OtherCommands
<1>2. ASSUME UNCHANGED <<asked, backlog, read, out, network, fd_cell, fd_to_channel_status,
                         unintercepted_fd, recovering>>
      PROVE  ThreadsFlowInv'
  <2>1. CutStays
    BY <1>2, CutEntries DEF Disconnected
  <2>. QED  BY <1>1, <1>2, <2>1, FlowRecover DEF NoneOpened, Disconnected
<1>3. CASE /\ UNCHANGED recovering
           /\ (\E ch \in Channel : DeliverCmd(ch)) \/ DeliverTimeout \/ print_status
  BY <1>2, <1>3 DEF DeliverCmd, DeliverTimeout, print_status
<1>4. CASE DequeueDead /\ UNCHANGED recovering
  <2>1. /\ Dequeue /\ UNCHANGED <<asked, backlog, read, out, fd_cell, fd_to_channel_status,
                                  unintercepted_fd, inRecover>>
    BY <1>1, <1>4 DEF DequeueDead, Dequeue, inRecover
  <2>2. PICK m \in Msg : m = HeadMsg /\ fd_cell[m.fd] = NoFd
    BY <1>1, <1>4, <2>1, DequeueType DEF DequeueDead
  <2>3. ASSUME NEW e \in End, Flowing(e) PROVE Kept(e)
    <3>1. e # m.fd
      BY <2>2, <2>3 DEF Flowing
    <3>2. /\ NumbersFor(Buffered(e), e)' = NumbersFor(Buffered(e), e)
          /\ InOrderFor(Buffered(e), e) => InOrderFor(Buffered(e), e)'
      BY <2>1, <2>2, <3>1, Dequeued
    <3>3. Pending(e) = Buffered(e) /\ Pending(e)' = Buffered(e)'
      BY <1>1 DEF Pending, InHandFor
    <3>. QED  BY <2>1, <3>2, <3>3 DEF Kept, OwnCount, NumbersFor, InOrderFor
  <2>4. \A ch \in Channel : \A i \in DOMAIN network'[ch] :
          \E j \in DOMAIN network[ch] : network'[ch][i] = network[ch][j]
    BY <2>1, <2>2, Dequeued
  <2>5. HandNext' /\ OwnOrdered'
    BY <1>1, <2>1, HandStays
  <2>. QED  BY <2>1, <2>3, <2>4, <2>5, FlowHand
<1>5. ASSUME NEW node \in Node, partition(node), UNCHANGED recovering
      PROVE  ThreadsFlowInv'
  <2>. DEFINE F == PairsOf(node)
  <2>1. /\ Tag(F) /\ UNCHANGED <<asked, backlog, read, out, network, sock, fd_cell,
                                 unintercepted_fd>>
    BY <1>5 DEF partition, Tag
  <2>2. F \in SUBSET Fd /\ PairsIn(F)
    <3>1. \A f \in EntriesOf(node) : Pair(f) \in SUBSET Fd /\ PairsIn(Pair(f))
      BY <1>1, PairIsIn DEF EntriesOf
    <3>. QED  BY <3>1 DEF PairsOf, PairsIn
  <2>3. \A f \in Fd : Disconnected(f) => Disconnected(f)'
    BY <2>1 DEF Tag, Disconnected
  <2>4. CutStays
    BY <1>1, <1>5, <2>3 DEF CutStays, Cut
  <2>5. HandNext'
    BY <1>1, <2>1, HandStays
  <2>6. \A e \in End : Kept(e)
    BY <1>1, <2>1, KeptSame DEF OwnCount
  <2>. HIDE DEF F
  <2>. QED  BY <1>1, <2>1, <2>2, <2>4, <2>5, <2>6, FlowTag
<1>6. ASSUME NEW node \in Node, Collect(node) PROVE ThreadsFlowInv'
  BY <1>1, <1>6, FlowCollect
<1>. QED  BY <1>3, <1>4, <1>5, <1>6 DEF OtherCommands

LEMMA FlowStart == ThreadsInit => ThreadsFlowInv
<1>. SUFFICES ASSUME ThreadsInit PROVE ThreadsFlowInv
  OBVIOUS
<1>1. ThreadsInv /\ Init /\ delivering = NotDelivering
  BY ThreadsStart DEF ThreadsInit
<1>2. \A e \in End : /\ fd_cell[e] = NoFd /\ read[e] = 0 /\ out[e] = <<>>
  BY <1>1 DEF Init
<1>3. \A ch \in Channel : DOMAIN network[ch] = {}
  BY <1>1 DEF Init
<1>4. OwnOrdered
  <2>1. \A e \in End : OwnIn(out[e], Peer(e)) = {}
    BY <1>2 DEF OwnIn
  <2>. QED  BY <2>1 DEF OwnOrdered, OrderIn
<1>. QED  BY <1>1, <1>2, <1>3, <1>4
          DEF ThreadsFlowInv, FlowMeanwhile, TagsTogether, FreshEmpty, OwnChannel, FramesFollow,
              Flowing, HandNext

LEMMA FlowStep == ThreadsFlowInv /\ [ThreadsNext]_threadVars => ThreadsFlowInv'
<1>. SUFFICES ASSUME ThreadsFlowInv, [ThreadsNext]_threadVars PROVE ThreadsFlowInv'
  OBVIOUS
<1>1. ThreadsInv'
  BY ThreadsStep DEF ThreadsFlowInv
<1>2. CASE overtaken'
  BY <1>1, <1>2 DEF ThreadsFlowInv
<1>3. CASE ~overtaken' /\ EpollThread /\ Overlap /\ UNCHANGED delivering
  BY <1>1, <1>3, FlowEpoll
<1>4. CASE ~overtaken' /\ UNCHANGED overtaken
  <2>1. ~overtaken
    BY <1>4
  <2>2. CASE Environment /\ UNCHANGED <<delivering, inRecover>>
    BY <1>1, <1>4, <2>2, FlowEnvironment
  <2>3. CASE Delivering /\ UNCHANGED inRecover
    BY <1>1, <2>1, <2>3, FlowDelivering
  <2>4. CASE Recovering /\ UNCHANGED <<delivering, overtaken>>
    BY <1>1, <2>1, <2>4, FlowRecovering
  <2>5. CASE OtherCommands
    BY <1>1, <2>1, <2>5, FlowOther
  <2>6. CASE UNCHANGED threadVars
    <3>1. UNCHANGED <<asked, backlog, read, out, network, fd_cell, fd_to_channel_status,
                      unintercepted_fd, delivering, recovering, overtaken>>
      BY <2>6 DEF threadVars, vars, kernel, tables, buffers
    <3>2. CutStays
      BY <3>1, CutEntries DEF Disconnected
    <3>. QED  BY <1>1, <2>1, <3>1, <3>2, FlowRecover DEF NoneOpened, Disconnected
  <2>7. CASE EpollThread /\ Overlap /\ UNCHANGED delivering
    BY <1>3, <1>4, <2>7
  <2>. QED  BY <2>2, <2>3, <2>4, <2>5, <2>6, <2>7 DEF ThreadsNext
<1>5. \/ EpollThread /\ Overlap /\ UNCHANGED delivering
      \/ UNCHANGED overtaken
  BY DEF ThreadsNext, inRecover, OtherCommands, threadVars
<1>. QED  BY <1>2, <1>3, <1>4, <1>5

\* The inductive invariant behind the order of frames: as long as both ends of a
\* connection are open and neither is cut, the frames its receiver has, the one
\* in deliver_msg's hand and those in the buffer follow on each other without a
\* gap, up to the last that has been read; the one in hand stays the next when
\* the epoll thread closes its connection meanwhile.
THEOREM ThreadsFlowInvariance == ThreadsSpec => []ThreadsFlowInv
BY FlowStart, FlowStep, PTL DEF ThreadsSpec

\* What an end receives of its own peer's frames is a run of them from the
\* first, each once and in order, wherever in deliver_msg and recover the epoll
\* thread comes in between, unless do_close was overtaken: a frame is lost only
\* as the last of its connection.
THEOREM OwnFramesOrdered == ThreadsSpec => []OwnFramesInOrder
<1>1. ThreadsFlowInv => OwnFramesInOrder
  <2>1. SUFFICES ASSUME ThreadsFlowInv, ~overtaken, NEW e \in End, NEW i \in OwnAt(e)
                 PROVE  out[e][i].n = Cardinality({j \in OwnAt(e) : j <= i})
    BY DEF OwnFramesInOrder
  <2>2. OwnAt(e) = OwnIn(out[e], Peer(e))
    BY DEF OwnAt, OwnIn
  <2>3. OrderIn(out[e], Peer(e))
    BY <2>1 DEF ThreadsFlowInv, FlowMeanwhile, OwnOrdered
  <2>. QED  BY <2>1, <2>2, <2>3 DEF OrderIn
<1>. QED  BY ThreadsFlowInvariance, <1>1, PTL
=============================================================================
