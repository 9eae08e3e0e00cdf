--------------------------- MODULE TcpNetworkProofs ---------------------------
(* Theorems about the router for every set of connections, routes,           *)
(* descriptors, budgets and faults, under either strategy.                   *)
EXTENDS TcpNetworkProps, SequenceTheorems, TLAPS

-----------------------------------------------------------------------------
(* The constants and the small operators.                                    *)

LEMMA PeerFacts ==
  ASSUME NEW e \in End
  PROVE  /\ Peer(e) \in End
         /\ Peer(Peer(e)) = e
         /\ Peer(e) # e
BY DEF Peer, End, Side

LEMMA ChanType ==
  ASSUME NEW e \in End
  PROVE  Chan(e) \in Channel
BY RouteAssumption DEF Chan, End, Side, Channel

LEMMA Sentinels ==
  /\ Free \notin End /\ Leaked \notin End
  /\ Free # Leaked
  /\ Idle \notin Channel
  /\ NoFd \notin Fd
  /\ NoEntry \notin [self_fd : End, disconnected : BOOLEAN]
<1>1. Free \notin End /\ Leaked \notin End /\ Free # Leaked
  BY DEF Free, Leaked, End, Side
<1>2. Idle \notin Channel
  BY DEF Idle, Channel
<1>3. NoFd \notin Fd
  BY ConstantsAssumption DEF NoFd
<1>4. NoEntry \notin [self_fd : End, disconnected : BOOLEAN]
  BY <1>1 DEF NoEntry
<1>. QED  BY <1>1, <1>2, <1>3, <1>4

-----------------------------------------------------------------------------
(* Type correctness.                                                         *)

TablesOK ==
  /\ sock \in [Fd -> End \cup {Free, Leaked}]
  /\ fd_cell \in [End -> Fd \cup {NoFd}]
  /\ fd_to_channel_status \in
       [Fd -> [self_fd : End, disconnected : BOOLEAN] \cup {NoEntry}]
  /\ unintercepted_fd \subseteq Fd

\* Closing and tagging any set of entries keeps the tables well typed.
LEMMA CloseType ==
  ASSUME TablesOK, NEW F \in SUBSET Fd, Close(F)
  PROVE  TablesOK'
BY DEF TablesOK, Close, CloseFds, ClearCells, EraseEntries, EraseUnintercepted

LEMMA TagType ==
  ASSUME TablesOK, NEW F \in SUBSET Fd, \A f \in F : HasEntry(f), Tag(F)
  PROVE  TablesOK'
<1>1. \A f \in F : EndOf(f) \in End
  BY DEF TablesOK, HasEntry, EndOf
<1>2. \A f \in F : [self_fd |-> EndOf(f), disconnected |-> TRUE]
                    \in [self_fd : End, disconnected : BOOLEAN]
  BY <1>1
<1>. QED  BY <1>2 DEF TablesOK, Tag

LEMMA AddType ==
  ASSUME TablesOK, NEW c \in Conn, NEW f \in Fd, NEW g \in Fd,
         add_fd_to_channel(c, f, g)
  PROVE  TablesOK'
<1>1. <<c, "client">> \in End /\ <<c, "peer">> \in End
  BY DEF End, Side
<1>. QED  BY <1>1 DEF TablesOK, add_fd_to_channel

\* The entries a pair consists of exist and belong to descriptors.
LEMMA PairType ==
  ASSUME NEW f \in Fd, HasEntry(f)
  PROVE  Pair(f) \in SUBSET Fd /\ \A g \in Pair(f) : HasEntry(g)
BY DEF Pair

LEMMA EntryType ==
  ASSUME TypeOK, NEW f \in Fd, HasEntry(f)
  PROVE  EndOf(f) \in End /\ Disconnected(f) \in BOOLEAN
BY DEF TypeOK, HasEntry, EndOf, Disconnected

LEMMA WriteType ==
  ASSUME TypeOK, NEW f \in Fd, NEW item \in Item, WriteItem(f, item)
  PROVE  out' \in [End -> Seq(Item)]
<1>. DEFINE S == Seq(Item)
<1>1. out \in [End -> S]
  BY DEF TypeOK
<1>2. \A s \in S : Append(s, item) \in S
  BY AppendProperties
<1>3. out' = [out EXCEPT ![sock[f]] = Append(out[sock[f]], item)]
  BY DEF WriteItem
<1>. HIDE DEF S
<1>4. out' \in [End -> S]
  BY <1>1, <1>2, <1>3
<1>. QED  BY <1>4 DEF S

LEMMA DeliverType ==
  ASSUME TypeOK, NEW m \in Msg, deliver(m)
  PROVE  TablesOK' /\ out' \in [End -> Seq(Item)]
<1>. DEFINE f == fd_cell[m.fd]
<1>0. TablesOK
  BY DEF TypeOK, TablesOK
<1>1. CASE DeliverBody(m)
  <2>. DEFINE item == [from |-> m.from, n |-> m.n, raw |-> FALSE, whole |-> TRUE]
  <2>1. item \in Item
    BY DEF Msg, Item
  <2>2. f \in Fd /\ WriteItem(f, item)
    BY <1>1 DEF DeliverBody, Deliverable
  <2>3. out' \in [End -> Seq(Item)]
    BY <2>1, <2>2, WriteType
  <2>4. TablesOK'
    BY <1>0, <1>1 DEF DeliverBody, tables, TablesOK
  <2>. QED  BY <2>3, <2>4
<1>2. CASE DeliverDrop(m)
  BY <1>0, <1>2 DEF DeliverDrop, tables, TablesOK, TypeOK
<1>3. CASE DeliverFails(m)
  <2>1. f \in Fd /\ HasEntry(f)
    BY <1>3 DEF DeliverFails, Deliverable
  <2>2. Pair(f) \in SUBSET Fd /\ \A g \in Pair(f) : HasEntry(g)
    BY <2>1, PairType
  <2>3. Close(Pair(f)) \/ Tag(Pair(f))
    BY <1>3 DEF DeliverFails
  <2>4. TablesOK'
    BY <1>0, <2>2, <2>3, CloseType, TagType
  <2>5. out' \in [End -> Seq(Item)]
    BY <1>3 DEF DeliverFails, TypeOK
  <2>. QED  BY <2>4, <2>5
<1>. QED  BY <1>1, <1>2, <1>3 DEF deliver

LEMMA HeadTailType ==
  ASSUME NEW S, NEW s \in Seq(S), s # <<>>
  PROVE  Head(s) \in S /\ Tail(s) \in Seq(S)
BY HeadTailProperties

\* A received frame is a message, and is buffered or delivered.
LEMMA EnqueueType ==
  ASSUME TypeOK, NEW f \in Fd, HasEntry(f), enqueue_msg(f, NewMsg(f))
  PROVE  /\ TablesOK' /\ out' \in [End -> Seq(Item)]
         /\ network' \in [Channel -> Seq(Msg)]
         /\ channels' \subseteq Channel /\ waiting' \in Channel \cup {Idle}
<1>. DEFINE m == NewMsg(f)
            ch == Chan(EndOf(f))
<1>1. EndOf(f) \in End /\ ch \in Channel
  BY EntryType, ChanType
<1>2. m \in Msg
  BY <1>1, PeerFacts DEF TypeOK, NewMsg, Next_n, Msg
<1>3. CASE Disconnected(f) /\ UNCHANGED <<out, tables, buffers>>
  BY <1>3 DEF TypeOK, TablesOK, tables, buffers
<1>4. CASE is_direct /\ deliver(m) /\ UNCHANGED buffers
  <2>1. TablesOK' /\ out' \in [End -> Seq(Item)]
    BY <1>2, <1>4, DeliverType
  <2>. QED  BY <1>4, <2>1 DEF TypeOK, buffers
<1>5. CASE BufferLast(ch, m)
  <2>. DEFINE S == Seq(Msg)
  <2>1. \A s \in S : Append(s, m) \in S
    BY <1>2, AppendProperties
  <2>2. network \in [Channel -> S]
    BY DEF TypeOK
  <2>3. network' = [network EXCEPT ![ch] = Append(network[ch], m)]
    BY <1>5 DEF BufferLast
  <2>. HIDE DEF S, ch, m
  <2>4. network' \in [Channel -> S]
    BY <2>1, <2>2, <2>3
  <2>5. network' \in [Channel -> Seq(Msg)]
    BY <2>4 DEF S
  <2>6. channels' \subseteq Channel
    BY <1>1, <1>5 DEF BufferLast, TypeOK
  <2>. QED  BY <1>5, <2>5, <2>6 DEF BufferLast, tables, TypeOK, TablesOK
<1>. QED  BY <1>3, <1>4, <1>5 DEF enqueue_msg

\* The message a deliver command takes is one, and the others stay so.
LEMMA DequeueType ==
  ASSUME TypeOK, Dequeue
  PROVE  HeadMsg \in Msg /\ network' \in [Channel -> Seq(Msg)]
<1>. DEFINE S == Seq(Msg)
<1>1. waiting \in Channel /\ network \in [Channel -> S] /\ network[waiting] # <<>>
  BY DEF Dequeue, TypeOK
<1>2. network' = [network EXCEPT ![waiting] = Tail(network[waiting])]
  BY DEF Dequeue
<1>3. Head(network[waiting]) \in Msg /\ Tail(network[waiting]) \in S
  BY <1>1, HeadTailType
<1>. HIDE DEF S
<1>4. network' \in [Channel -> S]
  BY <1>1, <1>2, <1>3
<1>. QED  BY <1>3, <1>4 DEF S, HeadMsg

\* Writing one more item leaves what the programs have written well typed.
LEMMA SentType ==
  ASSUME TypeOK, NEW e \in End, NEW k \in AllKinds \cup {"eof"},
         sent' = [sent EXCEPT ![e] = Append(@, k)]
  PROVE  sent' \in [End -> Seq(AllKinds \cup {"eof"})]
<1>. DEFINE K == AllKinds \cup {"eof"}
            S == Seq(K)
<1>1. sent \in [End -> S]
  BY DEF TypeOK
<1>2. \A s \in S : Append(s, k) \in S
  BY AppendProperties
<1>. HIDE DEF S
<1>3. sent' \in [End -> S]
  BY <1>1, <1>2
<1>. QED  BY <1>3 DEF S

LEMMA TypeInit == Init => TypeOK
<1>. SUFFICES ASSUME Init PROVE TypeOK
  OBVIOUS
<1>1. <<>> \in Seq(Conn) /\ <<>> \in Seq(AllKinds \cup {"eof"})
      /\ <<>> \in Seq(Item) /\ <<>> \in Seq(Msg)
  BY EmptySeq
<1>. QED  BY <1>1 DEF Init, TypeOK

LEMMA TypeStep == TypeOK /\ [Next]_vars => TypeOK'
<1>. SUFFICES ASSUME TypeOK, [Next]_vars PROVE TypeOK'
  OBVIOUS
<1>. USE DEF kernel, tables, buffers
<1>0. TablesOK
  BY DEF TypeOK, TablesOK
<1>1. ASSUME NEW c \in Conn, ClientConnect(c) PROVE TypeOK'
  <2>1. Append(backlog, c) \in Seq(Conn)
    BY AppendProperties DEF TypeOK
  <2>. QED  BY <1>1, <2>1 DEF ClientConnect, TypeOK
<1>2. ASSUME NEW e \in End, AppClose(e) PROVE TypeOK'
  <2>1. sent' \in [End -> Seq(AllKinds \cup {"eof"})]
    BY <1>2, SentType DEF AppClose
  <2>. QED  BY <1>2, <2>1 DEF AppClose, TypeOK
<1>3. ASSUME NEW e \in End, NEW k \in Kinds, AppSend(e, k) PROVE TypeOK'
  <2>1. sent' \in [End -> Seq(AllKinds \cup {"eof"})]
    BY <1>3, SentType, ConstantsAssumption DEF AppSend
  <2>. QED  BY <1>3, <2>1 DEF AppSend, TypeOK
<1>4. ASSUME NEW c \in Conn, AcceptConnect(c) PROVE TypeOK'
  <2>1. TablesOK'
    BY <1>0, <1>4, AddType DEF AcceptConnect, FreeFd
  <2>2. backlog' \in Seq(Conn)
    BY <1>4, HeadTailType DEF AcceptConnect, Accepting, Taken, TypeOK
  <2>. QED  BY <1>4, <2>1, <2>2 DEF AcceptConnect, Accepting, Taken, TypeOK, TablesOK
<1>5. ASSUME NEW c \in Conn, AcceptRefused(c) PROVE TypeOK'
  <2>1. backlog' \in Seq(Conn)
    BY <1>5, HeadTailType DEF AcceptRefused, Accepting, Taken, TypeOK
  <2>. QED  BY <1>5, <2>1 DEF AcceptRefused, Accepting, Taken, TypeOK
<1>6. ASSUME NEW c \in Conn, AcceptLeaks(c) PROVE TypeOK'
  <2>1. backlog' \in Seq(Conn)
    BY <1>6, HeadTailType DEF AcceptLeaks, Accepting, Taken, TypeOK
  <2>2. sock' \in [Fd -> End \cup {Free, Leaked}]
    BY <1>6 DEF AcceptLeaks, TypeOK
  <2>. QED  BY <1>6, <2>1, <2>2 DEF AcceptLeaks, Accepting, Taken, TypeOK
<1>7. ASSUME NEW c \in Conn, AcceptDies(c) PROVE TypeOK'
  BY <1>7 DEF AcceptDies, Accepting, TypeOK
<1>8. ASSUME NEW f \in Fd, HasEntry(f), Consume(f)
      PROVE  read' \in [End -> Nat]
  BY <1>8, EntryType DEF Consume, TypeOK
<1>9. ASSUME NEW f \in Fd, ReceiveFrame(f) PROVE TypeOK'
  <2>1. HasEntry(f) /\ Consume(f) /\ enqueue_msg(f, NewMsg(f))
    BY <1>9 DEF ReceiveFrame, Readable
  <2>2. read' \in [End -> Nat]
    BY <1>8, <2>1
  <2>3. /\ TablesOK' /\ out' \in [End -> Seq(Item)]
        /\ network' \in [Channel -> Seq(Msg)]
        /\ channels' \subseteq Channel /\ waiting' \in Channel \cup {Idle}
    BY <2>1, EnqueueType
  <2>. QED  BY <1>9, <2>2, <2>3 DEF ReceiveFrame, TypeOK, TablesOK
<1>10. ASSUME NEW f \in Fd, ReceiveEnd(f) PROVE TypeOK'
  <2>1. HasEntry(f) /\ Consume(f)
    BY <1>10 DEF ReceiveEnd, EndsConnection, Readable
  <2>2. read' \in [End -> Nat]
    BY <1>8, <2>1
  <2>3. TablesOK'
    BY <1>0, <1>10, <2>1, PairType, CloseType DEF ReceiveEnd
  <2>. QED  BY <1>10, <2>2, <2>3 DEF ReceiveEnd, TypeOK, TablesOK
<1>11. ASSUME NEW f \in Fd, ReceiveRaw(f) PROVE TypeOK'
  <2>. DEFINE g == fd_cell[Peer(EndOf(f))]
              item(whole) ==
                [from |-> EndOf(f), n |-> Next_n(f), raw |-> TRUE, whole |-> whole]
  <2>1. HasEntry(f) /\ Consume(f)
    BY <1>11 DEF ReceiveRaw, Readable
  <2>2. read' \in [End -> Nat]
    BY <1>8, <2>1
  <2>3. TablesOK' /\ out' \in [End -> Seq(Item)]
    <3>1. CASE PassOn(f, g)
      <4>0. EndOf(f) \in End /\ Next_n(f) \in Nat
        BY <2>1, EntryType DEF Next_n, TypeOK
      <4>2. PICK whole \in BOOLEAN : g \in Fd /\ WriteItem(g, item(whole))
        BY <3>1 DEF PassOn, OnConnection
      <4>1. item(whole) \in Item
        BY <4>0 DEF Item
      <4>3. out' \in [End -> Seq(Item)]
        BY <4>1, <4>2, WriteType
      <4>. QED  BY <1>0, <3>1, <4>3 DEF PassOn, TablesOK
    <3>2. CASE PassOnFails(f, g)
      BY <1>0, <2>1, <3>2, PairType, CloseType DEF PassOnFails, TypeOK
    <3>. QED  BY <1>11, <3>1, <3>2 DEF ReceiveRaw
  <2>. QED  BY <1>11, <2>2, <2>3 DEF ReceiveRaw, TypeOK, TablesOK
<1>12. ASSUME NEW ch \in Channel, DeliverCmd(ch) PROVE TypeOK'
  BY <1>12 DEF DeliverCmd, TypeOK
<1>14. CASE DequeueDead
  <2>1. network' \in [Channel -> Seq(Msg)]
    BY <1>14, DequeueType DEF DequeueDead
  <2>. QED  BY <1>14, <2>1 DEF DequeueDead, Dequeue, TypeOK
<1>15. CASE DequeueDeliver
  <2>1. HeadMsg \in Msg /\ network' \in [Channel -> Seq(Msg)]
    BY <1>15, DequeueType DEF DequeueDeliver
  <2>2. TablesOK' /\ out' \in [End -> Seq(Item)]
    BY <1>15, <2>1, DeliverType DEF DequeueDeliver
  <2>. QED  BY <1>15, <2>1, <2>2 DEF DequeueDeliver, Dequeue, TypeOK, TablesOK
<1>16. CASE DeliverTimeout
  BY <1>16 DEF DeliverTimeout, TypeOK
<1>17. ASSUME NEW node \in Node
       PROVE  PairsOf(node) \in SUBSET Fd /\ \A f \in PairsOf(node) : HasEntry(f)
  BY PairType DEF PairsOf, EntriesOf
<1>18. ASSUME NEW node \in Node, partition(node) PROVE TypeOK'
  <2>1. TablesOK'
    BY <1>0, <1>17, <1>18, TagType DEF partition
  <2>. QED  BY <1>18, <2>1 DEF partition, TypeOK, TablesOK
<1>19. ASSUME NEW node \in Node, recover(node) PROVE TypeOK'
  <2>. DEFINE cleared == {Chan(EndOf(f)) : f \in EntriesOf(node)}
              S == Seq(Msg)
  <2>1. TablesOK'
    BY <1>0, <1>17, <1>19, CloseType DEF recover
  <2>2. network' = [ch \in Channel |-> IF ch \in cleared THEN <<>> ELSE network[ch]]
    BY <1>19 DEF recover
  <2>3. <<>> \in S
    BY EmptySeq
  <2>4. network \in [Channel -> S]
    BY DEF TypeOK
  <2>. HIDE DEF S, cleared
  <2>5. network' \in [Channel -> S]
    BY <2>2, <2>3, <2>4
  <2>. QED  BY <1>19, <2>1, <2>5 DEF recover, TypeOK, TablesOK, S
<1>20. CASE print_status
  <2>1. \A f \in Fd : HasEntry(f) => Chan(EndOf(f)) \in Channel
    BY EntryType, ChanType
  <2>2. channels' \subseteq Channel
    BY <1>20, <2>1 DEF print_status, TypeOK
  <2>. QED  BY <1>20, <2>2 DEF print_status, TypeOK
<1>21. CASE UNCHANGED vars
  BY <1>21 DEF vars, TypeOK
<1>. QED
  BY <1>1, <1>2, <1>3, <1>4, <1>5, <1>6, <1>7, <1>9, <1>10, <1>11, <1>12, <1>14,
     <1>15, <1>16, <1>18, <1>19, <1>20, <1>21
  DEF Next, Environment, Epoll, Accept, do_receive, Commands, Delivery

\* Every variable keeps its type, whatever the programs write and whichever
\* commands are given.
THEOREM TypeCorrect == Spec => []TypeOK
<1>1. Init => TypeOK
  BY TypeInit
<1>2. TypeOK /\ [Next]_vars => TypeOK'
  BY TypeStep
<1>. QED  BY <1>1, <1>2, PTL DEF Spec

-----------------------------------------------------------------------------
(* The descriptor tables: what closing, marking and adding do to them.       *)

\* A set of entries that contains, with an entry, that of the other end.
ClosedUnderPeer(F) ==
  \A f \in F : HasEntry(f) /\ \A g \in Fd :
    HasEntry(g) /\ EndOf(g) = Peer(EndOf(f)) => g \in F

\* Descriptors are only ever lost: a shared integer keeps its value or is -1.
CellsShrink == \A e \in End : fd_cell'[e] # NoFd => fd_cell'[e] = fd_cell[e]

LEMMA CloseKeeps ==
  ASSUME TypeOK, DescriptorsConsistent, BothEndsTogether,
         NEW F \in SUBSET Fd, ClosedUnderPeer(F), Close(F)
  PROVE  DescriptorsConsistent' /\ BothEndsTogether' /\ CellsShrink
<1>. USE DEF HasEntry, EndOf, Disconnected
<1>1. /\ sock' = [f \in Fd |-> IF f \in F THEN Free ELSE sock[f]]
      /\ fd_cell' = [e \in End |->
           IF \E f \in F : EndOf(f) = e THEN NoFd ELSE fd_cell[e]]
      /\ fd_to_channel_status' = [f \in Fd |->
           IF f \in F THEN NoEntry ELSE fd_to_channel_status[f]]
  BY DEF Close, CloseFds, ClearCells, EraseEntries
<1>2. ASSUME NEW f \in Fd, HasEntry(f)'
      PROVE  f \notin F /\ HasEntry(f) /\ EndOf(f)' = EndOf(f)
             /\ Disconnected(f)' = Disconnected(f)
  BY <1>1, <1>2
<1>3. ASSUME NEW f \in Fd, HasEntry(f)'
      PROVE  sock'[f] = EndOf(f)' /\ fd_cell'[EndOf(f)'] = f
  <2>1. f \notin F /\ HasEntry(f) /\ EndOf(f)' = EndOf(f)
    BY <1>2, <1>3
  <2>2. sock[f] = EndOf(f) /\ fd_cell[EndOf(f)] = f /\ EndOf(f) \in End
    BY <2>1, EntryType DEF DescriptorsConsistent
  <2>3. \A g \in F : EndOf(g) # EndOf(f)
    BY <2>1, <2>2 DEF DescriptorsConsistent, ClosedUnderPeer
  <2>. QED  BY <1>1, <2>1, <2>2, <2>3
<1>4. ASSUME NEW e \in End, fd_cell'[e] # NoFd
      PROVE  /\ fd_cell'[e] = fd_cell[e]
             /\ HasEntry(fd_cell[e])' /\ EndOf(fd_cell[e])' = e
  <2>1. fd_cell'[e] = fd_cell[e] /\ \A f \in F : EndOf(f) # e
    BY <1>1, <1>4
  <2>2. fd_cell[e] \in Fd /\ HasEntry(fd_cell[e]) /\ EndOf(fd_cell[e]) = e
    BY <1>4, <2>1 DEF DescriptorsConsistent, TypeOK
  <2>. QED  BY <1>1, <2>1, <2>2
<1>5. \A f \in Fd : sock'[f] \in End => HasEntry(f)'
  BY <1>1, Sentinels DEF DescriptorsConsistent
<1>6. DescriptorsConsistent'
  BY <1>3, <1>4, <1>5 DEF DescriptorsConsistent
<1>7. ASSUME NEW f \in Fd, HasEntry(f)'
      PROVE  \E g \in Fd : /\ HasEntry(g)' /\ EndOf(g)' = Peer(EndOf(f)')
                           /\ Disconnected(g)' = Disconnected(f)'
  <2>1. f \notin F /\ HasEntry(f) /\ EndOf(f)' = EndOf(f)
        /\ Disconnected(f)' = Disconnected(f)
    BY <1>2, <1>7
  <2>2. PICK g \in Fd : /\ HasEntry(g) /\ EndOf(g) = Peer(EndOf(f))
                       /\ Disconnected(g) = Disconnected(f)
    BY <2>1 DEF BothEndsTogether
  <2>3. EndOf(f) = Peer(EndOf(g))
    BY <2>1, <2>2, PeerFacts, EntryType
  <2>4. g \notin F
    BY <2>1, <2>3 DEF ClosedUnderPeer
  <2>. QED  BY <1>1, <2>1, <2>2, <2>4
<1>8. BothEndsTogether'
  BY <1>7 DEF BothEndsTogether
<1>9. CellsShrink
  BY <1>4 DEF CellsShrink
<1>. QED  BY <1>6, <1>8, <1>9

LEMMA TagKeeps ==
  ASSUME TypeOK, DescriptorsConsistent, BothEndsTogether,
         NEW F \in SUBSET Fd, ClosedUnderPeer(F), Tag(F)
  PROVE  DescriptorsConsistent' /\ BothEndsTogether' /\ CellsShrink
<1>. USE DEF HasEntry, EndOf, Disconnected
<1>1. /\ fd_to_channel_status' = [f \in Fd |->
           IF f \in F THEN [self_fd |-> EndOf(f), disconnected |-> TRUE]
                      ELSE fd_to_channel_status[f]]
      /\ sock' = sock /\ fd_cell' = fd_cell
  BY DEF Tag
<1>2. \A f \in F : EndOf(f) \in End /\ HasEntry(f)
  BY EntryType DEF ClosedUnderPeer
<1>3. ASSUME NEW f \in Fd
      PROVE  /\ HasEntry(f)' <=> HasEntry(f)
             /\ EndOf(f)' = EndOf(f)
             /\ Disconnected(f)' = IF f \in F THEN TRUE ELSE Disconnected(f)
  <2>1. CASE f \in F
    <3>1. fd_to_channel_status'[f] = [self_fd |-> EndOf(f), disconnected |-> TRUE]
      BY <1>1, <2>1
    <3>2. fd_to_channel_status'[f] \in [self_fd : End, disconnected : BOOLEAN]
      BY <1>2, <2>1, <3>1
    <3>3. HasEntry(f)'
      BY <3>2, Sentinels
    <3>4. EndOf(f)' = EndOf(f) /\ Disconnected(f)' = TRUE
      BY <3>1
    <3>. QED  BY <1>2, <2>1, <3>3, <3>4
  <2>2. CASE f \notin F
    <3>1. fd_to_channel_status'[f] = fd_to_channel_status[f]
      BY <1>1, <2>2
    <3>. QED  BY <2>2, <3>1
  <2>. QED  BY <2>1, <2>2
<1>4. DescriptorsConsistent'
  <2>. HIDE DEF HasEntry, EndOf, Disconnected
  <2>1. \A e \in End : fd_cell[e] # NoFd => fd_cell[e] \in Fd
    BY DEF TypeOK
  <2>. QED  BY <1>1, <1>3, <2>1 DEF DescriptorsConsistent
<1>5. BothEndsTogether'
  <2>. HIDE DEF HasEntry, EndOf, Disconnected
  <2>1. SUFFICES ASSUME NEW f \in Fd, HasEntry(f)
                 PROVE  \E g \in Fd : /\ HasEntry(g) /\ EndOf(g) = Peer(EndOf(f))
                                      /\ Disconnected(g)' = Disconnected(f)'
    BY <1>3 DEF BothEndsTogether
  <2>2. PICK g \in Fd : /\ HasEntry(g) /\ EndOf(g) = Peer(EndOf(f))
                       /\ Disconnected(g) = Disconnected(f)
    BY <2>1 DEF BothEndsTogether
  <2>3. EndOf(f) = Peer(EndOf(g))
    BY <2>1, <2>2, PeerFacts, EntryType
  <2>4. f \in F <=> g \in F
    BY <2>1, <2>2, <2>3 DEF ClosedUnderPeer
  <2>. QED  BY <1>3, <2>2, <2>4
<1>6. CellsShrink
  BY <1>1 DEF CellsShrink
<1>. QED  BY <1>4, <1>5, <1>6

\* What close_connection reaches from an entry is that entry and the other end's.
LEMMA PairClosed ==
  ASSUME TypeOK, DescriptorsConsistent, NEW f \in Fd, HasEntry(f)
  PROVE  ClosedUnderPeer(Pair(f))
<1>1. EndOf(f) \in End /\ Peer(Peer(EndOf(f))) = EndOf(f)
  BY EntryType, PeerFacts
<1>2. ASSUME NEW h \in Pair(f), NEW g \in Fd, HasEntry(g), EndOf(g) = Peer(EndOf(h))
      PROVE  g \in Pair(f)
  <2>1. fd_cell[EndOf(g)] = g
    BY <1>2 DEF DescriptorsConsistent
  <2>2. CASE h = f
    BY <1>2, <2>1, <2>2 DEF Pair
  <2>3. CASE h # f
    <3>1. h \in Fd /\ HasEntry(h) /\ fd_cell[Peer(EndOf(f))] = h
      BY <1>2, <2>3 DEF Pair
    <3>2. EndOf(h) = Peer(EndOf(f))
      BY <1>1, <3>1, PeerFacts, Sentinels DEF DescriptorsConsistent
    <3>3. EndOf(g) = EndOf(f)
      BY <1>1, <1>2, <3>2
    <3>4. g = f
      BY <2>1, <3>3 DEF DescriptorsConsistent
    <3>. QED  BY <3>4 DEF Pair
  <2>. QED  BY <2>2, <2>3
<1>. QED  BY <1>2, PairType DEF ClosedUnderPeer

LEMMA PairsOfClosed ==
  ASSUME TypeOK, DescriptorsConsistent, NEW node \in Node
  PROVE  PairsOf(node) \in SUBSET Fd /\ ClosedUnderPeer(PairsOf(node))
<1>1. \A f \in EntriesOf(node) : f \in Fd /\ HasEntry(f)
  BY DEF EntriesOf
<1>2. \A f \in EntriesOf(node) : ClosedUnderPeer(Pair(f)) /\ Pair(f) \in SUBSET Fd
  BY <1>1, PairClosed, PairType
<1>. QED  BY <1>2 DEF PairsOf, ClosedUnderPeer

TablesInv == DescriptorsConsistent /\ BothEndsTogether

\* New entries on free descriptors, for a connection that has none.
LEMMA AddKeeps ==
  ASSUME TypeOK, TablesInv, NEW c \in Conn, NEW f \in Fd, NEW g \in Fd, f # g,
         sock[f] = Free, sock[g] = Free,
         fd_cell[<<c, "client">>] = NoFd, fd_cell[<<c, "peer">>] = NoFd,
         add_fd_to_channel(c, f, g)
  PROVE  TablesInv' /\ \A e \in End : e[1] # c => fd_cell'[e] = fd_cell[e]
<1>. DEFINE client == <<c, "client">>
            peer == <<c, "peer">>
            entry(e) == [self_fd |-> e, disconnected |-> FALSE]
<1>. USE DEF HasEntry, EndOf, Disconnected
<1>1. /\ client \in End /\ peer \in End /\ client # peer
      /\ Peer(client) = peer /\ Peer(peer) = client
      /\ client[1] = c /\ peer[1] = c
  BY DEF End, Side, Peer
<1>2. /\ sock' = [sock EXCEPT ![f] = client, ![g] = peer]
      /\ fd_cell' = [fd_cell EXCEPT ![client] = f, ![peer] = g]
      /\ fd_to_channel_status' =
           [fd_to_channel_status EXCEPT ![f] = entry(client), ![g] = entry(peer)]
  BY DEF add_fd_to_channel
<1>. HIDE DEF client, peer
<1>3. ~HasEntry(f) /\ ~HasEntry(g)
  BY EntryType, Sentinels DEF TablesInv, DescriptorsConsistent
<1>4. /\ sock'[f] = client /\ sock'[g] = peer
      /\ \A h \in Fd : h # f /\ h # g => sock'[h] = sock[h]
  BY <1>2 DEF TypeOK
<1>5. /\ fd_cell'[client] = f /\ fd_cell'[peer] = g
      /\ \A e \in End : e # client /\ e # peer => fd_cell'[e] = fd_cell[e]
  BY <1>1, <1>2 DEF TypeOK
<1>6. /\ EndOf(f)' = client /\ EndOf(g)' = peer
      /\ Disconnected(f)' = FALSE /\ Disconnected(g)' = FALSE
      /\ \A h \in Fd : h # f /\ h # g =>
            /\ HasEntry(h)' <=> HasEntry(h)
            /\ EndOf(h)' = EndOf(h) /\ Disconnected(h)' = Disconnected(h)
  BY <1>2 DEF TypeOK
<1>7. HasEntry(f)' /\ HasEntry(g)'
  <2>1. client # Free /\ peer # Free
    BY <1>1, Sentinels
  <2>. QED  BY <1>6, <2>1 DEF NoEntry
<1>8. ASSUME NEW h \in Fd, h # f, h # g, HasEntry(h)
      PROVE  EndOf(h) \in End /\ EndOf(h) # client /\ EndOf(h) # peer
  BY <1>8, EntryType, Sentinels DEF TablesInv, DescriptorsConsistent, client, peer
<1>. HIDE DEF HasEntry, EndOf, Disconnected
<1>9. DescriptorsConsistent'
  <2>1. ASSUME NEW h \in Fd, HasEntry(h)'
        PROVE  sock'[h] = EndOf(h)' /\ fd_cell'[EndOf(h)'] = h
    BY <1>4, <1>5, <1>6, <1>8, <2>1 DEF TablesInv, DescriptorsConsistent
  <2>2. ASSUME NEW e \in End, fd_cell'[e] # NoFd
        PROVE  HasEntry(fd_cell[e])' /\ EndOf(fd_cell[e])' = e
    <3>1. CASE e = client \/ e = peer
      BY <1>5, <1>6, <1>7, <3>1 DEF HasEntry, EndOf
    <3>2. CASE e # client /\ e # peer
      <4>1. fd_cell'[e] = fd_cell[e] /\ fd_cell[e] \in Fd
        BY <1>5, <2>2, <3>2 DEF TypeOK
      <4>2. HasEntry(fd_cell[e]) /\ EndOf(fd_cell[e]) = e
        BY <2>2, <4>1 DEF TablesInv, DescriptorsConsistent
      <4>3. fd_cell[e] # f /\ fd_cell[e] # g
        BY <1>3, <4>2
      <4>. QED  BY <1>6, <4>1, <4>2, <4>3 DEF HasEntry, EndOf
    <3>. QED  BY <3>1, <3>2
  <2>3. \A h \in Fd : sock'[h] \in End => HasEntry(h)'
    BY <1>4, <1>6, <1>7 DEF TablesInv, DescriptorsConsistent
  <2>. QED  BY <2>1, <2>2, <2>3 DEF DescriptorsConsistent
<1>10. BothEndsTogether'
  <2>1. SUFFICES ASSUME NEW h \in Fd, HasEntry(h)'
                 PROVE  \E k \in Fd : /\ HasEntry(k)' /\ EndOf(k)' = Peer(EndOf(h)')
                                      /\ Disconnected(k)' = Disconnected(h)'
    BY DEF BothEndsTogether
  <2>2. CASE h = f
    BY <1>1, <1>6, <1>7, <2>2
  <2>3. CASE h = g
    BY <1>1, <1>6, <1>7, <2>3
  <2>4. CASE h # f /\ h # g
    <3>1. HasEntry(h) /\ EndOf(h)' = EndOf(h) /\ Disconnected(h)' = Disconnected(h)
      BY <1>6, <2>1, <2>4
    <3>2. PICK k \in Fd : /\ HasEntry(k) /\ EndOf(k) = Peer(EndOf(h))
                         /\ Disconnected(k) = Disconnected(h)
      BY <3>1 DEF TablesInv, BothEndsTogether
    <3>3. k # f /\ k # g
      BY <1>3, <3>2
    <3>. QED  BY <1>6, <3>1, <3>2, <3>3
  <2>. QED  BY <2>2, <2>3, <2>4
<1>. QED  BY <1>1, <1>5, <1>9, <1>10 DEF TablesInv

\* A write at a descriptor whose entry is for the sender's other end.
LEMMA WriteKeeps ==
  ASSUME TypeOK, NoCrossTalk, NEW f \in Fd, sock[f] \in End,
         NEW item \in Item, item.from = Peer(sock[f]), WriteItem(f, item)
  PROVE  NoCrossTalk'
<1>. DEFINE to == sock[f]
<1>1. out[to] \in Seq(Item) /\ out' = [out EXCEPT ![to] = Append(out[to], item)]
  BY DEF TypeOK, WriteItem
<1>2. /\ Len(Append(out[to], item)) = Len(out[to]) + 1
      /\ \A i \in 1 .. Len(out[to]) : Append(out[to], item)[i] = out[to][i]
      /\ Append(out[to], item)[Len(out[to]) + 1] = item
      /\ Append(out[to], item) \in Seq(Item)
  BY <1>1, AppendProperties
<1>3. ASSUME NEW i \in DOMAIN Append(out[to], item)
      PROVE  Append(out[to], item)[i].from = Peer(to)
  <2>1. i \in 1 .. (Len(out[to]) + 1)
    BY <1>2
  <2>2. CASE i = Len(out[to]) + 1
    BY <1>2, <2>2
  <2>3. CASE i # Len(out[to]) + 1
    <3>1. i \in DOMAIN out[to] /\ i \in 1 .. Len(out[to])
      BY <1>1, <2>1, <2>3
    <3>. QED  BY <1>2, <3>1 DEF NoCrossTalk
  <2>. QED  BY <2>2, <2>3
<1>. HIDE DEF to
<1>4. \A e \in End : out'[e] = IF e = to THEN Append(out[to], item) ELSE out[e]
  BY <1>1 DEF TypeOK
<1>. QED  BY <1>3, <1>4 DEF NoCrossTalk

\* Delivering a message that is addressed to the other end of its connection.
LEMMA DeliverKeeps ==
  ASSUME TypeOK, TablesInv, NoCrossTalk, NEW m \in Msg, m.from = Peer(m.fd),
         deliver(m)
  PROVE  TablesInv' /\ NoCrossTalk' /\ CellsShrink
<1>. DEFINE f == fd_cell[m.fd]
<1>1. m.fd \in End /\ m.from \in End /\ m.n \in Nat
  BY DEF Msg
<1>2. CASE DeliverBody(m)
  <2>. DEFINE item == [from |-> m.from, n |-> m.n, raw |-> FALSE, whole |-> TRUE]
  <2>1. f \in Fd /\ HasEntry(f) /\ WriteItem(f, item)
    BY <1>2 DEF DeliverBody, Deliverable
  <2>2. sock[f] = m.fd
    BY <1>1, <2>1, Sentinels DEF TablesInv, DescriptorsConsistent
  <2>3. item \in Item /\ item.from = Peer(sock[f])
    BY <1>1, <2>2 DEF Item
  <2>4. NoCrossTalk'
    BY <1>1, <2>1, <2>2, <2>3, WriteKeeps
  <2>. QED  BY <1>2, <2>4
       DEF DeliverBody, tables, TablesInv, DescriptorsConsistent,
           BothEndsTogether, CellsShrink, HasEntry, EndOf, Disconnected
<1>3. CASE DeliverDrop(m)
  BY <1>3 DEF DeliverDrop, tables, TablesInv, DescriptorsConsistent, NoCrossTalk,
              BothEndsTogether, CellsShrink, HasEntry, EndOf, Disconnected
<1>4. CASE DeliverFails(m)
  <2>1. f \in Fd /\ HasEntry(f)
    BY <1>4 DEF DeliverFails, Deliverable
  <2>2. Pair(f) \in SUBSET Fd /\ ClosedUnderPeer(Pair(f))
    BY <2>1, PairType, PairClosed DEF TablesInv
  <2>3. Close(Pair(f)) \/ Tag(Pair(f))
    BY <1>4 DEF DeliverFails
  <2>4. TablesInv' /\ CellsShrink
    BY <2>2, <2>3, CloseKeeps, TagKeeps DEF TablesInv
  <2>. QED  BY <1>4, <2>4 DEF DeliverFails, NoCrossTalk
<1>. QED  BY <1>2, <1>3, <1>4 DEF deliver

-----------------------------------------------------------------------------
(* The backlog and the buffers.                                              *)

LEMMA ShrinkKeepsConnected ==
  ASSUME TypeOK, ConnectedOnce, CellsShrink, UNCHANGED <<asked, backlog>>
  PROVE  ConnectedOnce'
BY DEF ConnectedOnce, Waits, CellsShrink

\* A connection that a client opens is new.
LEMMA ConnectKeeps ==
  ASSUME TypeOK, ConnectedOnce, NEW c \in Conn, ClientConnect(c)
  PROVE  ConnectedOnce'
<1>1. /\ backlog \in Seq(Conn) /\ backlog' = Append(backlog, c)
      /\ c \notin asked /\ asked' = asked \cup {c} /\ fd_cell' = fd_cell
  BY DEF ClientConnect, TypeOK, tables
<1>2. /\ DOMAIN backlog = 1 .. Len(backlog) /\ Len(backlog) \in Nat
      /\ DOMAIN backlog' = 1 .. (Len(backlog) + 1)
      /\ \A i \in DOMAIN backlog : backlog'[i] = backlog[i]
      /\ backlog'[Len(backlog) + 1] = c
  BY <1>1, AppendProperties
<1>3. \A i \in DOMAIN backlog : backlog[i] \in asked /\ backlog[i] # c
  BY <1>1 DEF ConnectedOnce, Waits, TypeOK
<1>4. \A i, j \in DOMAIN backlog' : backlog'[i] = backlog'[j] => i = j
  <2>1. \A i \in DOMAIN backlog' : i \in DOMAIN backlog \/ i = Len(backlog) + 1
    BY <1>2
  <2>. QED  BY <1>2, <1>3, <2>1 DEF ConnectedOnce
<1>5. \A d \in Conn : Waits(d)' => Waits(d) \/ d = c
  BY <1>2 DEF Waits
<1>6. \A e \in End : fd_cell[e] # NoFd => e[1] \in Conn /\ e[1] # c
  BY <1>1 DEF ConnectedOnce, End
<1>. QED  BY <1>1, <1>4, <1>5, <1>6 DEF ConnectedOnce

\* Taking the first connection of the backlog.
LEMMA TakeKeepsConnected ==
  ASSUME TypeOK, ConnectedOnce, NEW c \in Conn, Accepting(c), Taken,
         \A e \in End : e[1] # c => fd_cell'[e] = fd_cell[e]
  PROVE  ConnectedOnce'
<1>1. /\ backlog \in Seq(Conn) /\ backlog # <<>>
      /\ c = Head(backlog) /\ backlog' = Tail(backlog) /\ asked' = asked
  BY DEF Accepting, Taken, TypeOK
<1>2. /\ Len(backlog) \in Nat /\ Len(backlog) > 0 /\ backlog[1] = c
      /\ DOMAIN backlog = 1 .. Len(backlog)
      /\ DOMAIN backlog' = 1 .. (Len(backlog) - 1)
      /\ \A i \in DOMAIN backlog' : backlog'[i] = backlog[i + 1]
  BY <1>1, HeadTailProperties
<1>3. \A i \in DOMAIN backlog' : i + 1 \in DOMAIN backlog /\ 1 \in DOMAIN backlog
  BY <1>2
<1>4. \A i, j \in DOMAIN backlog' : backlog'[i] = backlog'[j] => i = j
  <2>1. SUFFICES ASSUME NEW i \in DOMAIN backlog', NEW j \in DOMAIN backlog',
                        backlog'[i] = backlog'[j]
                 PROVE  i = j
    OBVIOUS
  <2>2. i + 1 = j + 1
    BY <1>2, <1>3, <2>1 DEF ConnectedOnce
  <2>3. i \in Nat /\ j \in Nat
    BY <1>2
  <2>. QED  BY <2>2, <2>3
<1>5. ASSUME NEW d \in Conn, Waits(d)'
      PROVE  Waits(d) /\ d # c
  <2>1. PICK i \in DOMAIN backlog' : backlog'[i] = d
    BY <1>5 DEF Waits
  <2>2. backlog[i + 1] = d /\ i + 1 \in DOMAIN backlog /\ i + 1 # 1
    BY <1>2, <1>3, <2>1
  <2>. QED  BY <1>2, <1>3, <2>2 DEF Waits, ConnectedOnce
<1>6. c \in asked
  BY <1>2 DEF ConnectedOnce, Waits
<1>7. \A d \in Conn : Waits(d)' => d \in asked'
  BY <1>1, <1>5 DEF ConnectedOnce
<1>8. ASSUME NEW e \in End, fd_cell'[e] # NoFd
      PROVE  e[1] \in asked' /\ ~Waits(e[1])'
  <2>1. e[1] \in Conn
    BY DEF End
  <2>2. CASE e[1] = c
    BY <1>1, <1>5, <1>6, <2>1, <2>2
  <2>3. CASE e[1] # c
    BY <1>1, <1>5, <1>8, <2>1, <2>3 DEF ConnectedOnce
  <2>. QED  BY <2>2, <2>3
<1>. QED  BY <1>4, <1>7, <1>8 DEF ConnectedOnce

LEMMA BufferKeeps ==
  ASSUME TypeOK, MessagesAddressed, NEW ch \in Channel, NEW m \in Msg,
         m.from = Peer(m.fd), BufferLast(ch, m)
  PROVE  MessagesAddressed'
<1>1. network[ch] \in Seq(Msg)
      /\ network' = [network EXCEPT ![ch] = Append(network[ch], m)]
  BY DEF TypeOK, BufferLast
<1>. DEFINE longer == Append(network[ch], m)
<1>2. /\ longer \in Seq(Msg) /\ Len(longer) = Len(network[ch]) + 1
      /\ \A i \in 1 .. Len(network[ch]) : longer[i] = network[ch][i]
      /\ longer[Len(network[ch]) + 1] = m
  BY <1>1, AppendProperties
<1>3. \A i \in DOMAIN longer : i \in DOMAIN network[ch] \/ i = Len(network[ch]) + 1
  BY <1>1, <1>2
<1>4. \A i \in DOMAIN network[ch] : i \in 1 .. Len(network[ch])
  BY <1>1
<1>. HIDE DEF longer
<1>5. ASSUME NEW i \in DOMAIN longer
      PROVE  longer[i].from = Peer(longer[i].fd)
  BY <1>2, <1>3, <1>4 DEF MessagesAddressed
<1>6. \A k \in Channel : network'[k] = IF k = ch THEN longer ELSE network[k]
  BY <1>1 DEF TypeOK, longer
<1>. QED  BY <1>5, <1>6 DEF MessagesAddressed

LEMMA DequeueKeeps ==
  ASSUME TypeOK, MessagesAddressed, Dequeue
  PROVE  /\ MessagesAddressed'
         /\ HeadMsg \in Msg /\ HeadMsg.from = Peer(HeadMsg.fd)
<1>. DEFINE s == network[waiting]
<1>1. waiting \in Channel /\ s \in Seq(Msg) /\ s # <<>>
  BY DEF TypeOK, Dequeue
<1>2. network' = [network EXCEPT ![waiting] = Tail(s)]
  BY DEF Dequeue
<1>3. /\ Head(s) \in Msg /\ Head(s) = s[1] /\ 1 \in DOMAIN s
      /\ \A i \in DOMAIN Tail(s) : i + 1 \in DOMAIN s /\ Tail(s)[i] = s[i + 1]
  BY <1>1, HeadTailProperties
<1>4. HeadMsg \in Msg /\ HeadMsg.from = Peer(HeadMsg.fd)
  BY <1>1, <1>3 DEF HeadMsg, MessagesAddressed
<1>5. \A i \in DOMAIN Tail(s) : Tail(s)[i].from = Peer(Tail(s)[i].fd)
  BY <1>1, <1>3 DEF MessagesAddressed
<1>. HIDE DEF s
<1>6. \A k \in Channel : network'[k] = IF k = waiting THEN Tail(s) ELSE network[k]
  BY <1>2 DEF TypeOK
<1>. QED  BY <1>4, <1>5, <1>6 DEF MessagesAddressed

-----------------------------------------------------------------------------
(* Sequences of messages.                                                    *)

\* The buffer that holds the frames for e.
Buffered(e) == network[Chan(Peer(e))]

\* The numbers of the messages in s for end e, and that they come in order.
NumbersFor(s, e) == {s[i].n : i \in {j \in DOMAIN s : s[j].fd = e}}
InOrderFor(s, e) ==
  \A i, j \in DOMAIN s : i < j /\ s[i].fd = e /\ s[j].fd = e => s[i].n < s[j].n

LEMMA AppendOther ==
  ASSUME NEW s \in Seq(Msg), NEW m \in Msg, NEW e \in End, m.fd # e
  PROVE  /\ NumbersFor(Append(s, m), e) = NumbersFor(s, e)
         /\ InOrderFor(s, e) => InOrderFor(Append(s, m), e)
<1>. DEFINE t == Append(s, m)
<1>1. /\ DOMAIN s = 1 .. Len(s) /\ Len(s) \in Nat /\ DOMAIN t = 1 .. (Len(s) + 1)
      /\ \A i \in 1 .. Len(s) : t[i] = s[i]
      /\ t[Len(s) + 1] = m
  BY AppendProperties
<1>. HIDE DEF t
<1>2. {j \in DOMAIN t : t[j].fd = e} = {j \in DOMAIN s : s[j].fd = e}
  BY <1>1
<1>3. NumbersFor(t, e) = NumbersFor(s, e)
  BY <1>1, <1>2 DEF NumbersFor
<1>4. ASSUME InOrderFor(s, e) PROVE InOrderFor(t, e)
  BY <1>1, <1>2, <1>4 DEF InOrderFor
<1>. QED  BY <1>3, <1>4 DEF t

LEMMA AppendOwn ==
  ASSUME NEW s \in Seq(Msg), NEW m \in Msg, InOrderFor(s, m.fd),
         \A n \in NumbersFor(s, m.fd) : n < m.n
  PROVE  /\ NumbersFor(Append(s, m), m.fd) = NumbersFor(s, m.fd) \cup {m.n}
         /\ InOrderFor(Append(s, m), m.fd)
<1>. DEFINE t == Append(s, m)
            e == m.fd
<1>1. /\ DOMAIN s = 1 .. Len(s) /\ Len(s) \in Nat /\ DOMAIN t = 1 .. (Len(s) + 1)
      /\ \A i \in 1 .. Len(s) : t[i] = s[i]
      /\ t[Len(s) + 1] = m
  BY AppendProperties
<1>. HIDE DEF t
<1>2. {j \in DOMAIN t : t[j].fd = e} = {j \in DOMAIN s : s[j].fd = e} \cup {Len(s) + 1}
  BY <1>1
<1>3. NumbersFor(t, e) = NumbersFor(s, e) \cup {m.n}
  BY <1>1, <1>2 DEF NumbersFor
<1>4. ASSUME NEW i \in DOMAIN t, NEW j \in DOMAIN t, i < j, t[i].fd = e, t[j].fd = e
      PROVE  t[i].n < t[j].n
  <2>1. i \in 1 .. Len(s) /\ t[i] = s[i]
    BY <1>1, <1>4
  <2>2. CASE j \in 1 .. Len(s)
    BY <1>1, <1>4, <2>1, <2>2 DEF InOrderFor
  <2>3. CASE j = Len(s) + 1
    <3>1. t[i].n \in NumbersFor(s, e)
      BY <1>1, <1>4, <2>1 DEF NumbersFor
    <3>. QED  BY <1>1, <2>3, <3>1
  <2>. QED  BY <1>1, <1>4, <2>2, <2>3
<1>5. InOrderFor(t, e)
  BY <1>4 DEF InOrderFor
<1>. QED  BY <1>3, <1>5 DEF t

LEMMA TailFor ==
  ASSUME NEW s \in Seq(Msg), s # <<>>, NEW e \in End, InOrderFor(s, e)
  PROVE  /\ InOrderFor(Tail(s), e)
         /\ Head(s).fd # e => NumbersFor(Tail(s), e) = NumbersFor(s, e)
         /\ Head(s).fd = e =>
              /\ NumbersFor(s, e) = NumbersFor(Tail(s), e) \cup {Head(s).n}
              /\ \A n \in NumbersFor(Tail(s), e) : Head(s).n < n
<1>. DEFINE t == Tail(s)
<1>1. /\ Len(s) \in Nat /\ Len(s) > 0 /\ DOMAIN s = 1 .. Len(s)
      /\ DOMAIN t = 1 .. (Len(s) - 1) /\ Head(s) = s[1]
      /\ \A i \in DOMAIN t : t[i] = s[i + 1]
  BY HeadTailProperties
<1>. HIDE DEF t
<1>2. \A i \in DOMAIN t : i \in Nat /\ i + 1 \in DOMAIN s /\ 1 < i + 1
  BY <1>1
<1>3. \A i \in DOMAIN s : i = 1 \/ (i - 1 \in DOMAIN t /\ s[i] = t[i - 1])
  BY <1>1
<1>4. ASSUME NEW i \in DOMAIN t, NEW j \in DOMAIN t, i < j, t[i].fd = e, t[j].fd = e
      PROVE  t[i].n < t[j].n
  <2>1. i + 1 < j + 1
    BY <1>2, <1>4
  <2>. QED  BY <1>1, <1>2, <1>4, <2>1 DEF InOrderFor
<1>5. ASSUME NEW n \in NumbersFor(t, e)
      PROVE  n \in NumbersFor(s, e) /\ (s[1].fd = e => s[1].n < n)
  <2>1. PICK i \in DOMAIN t : t[i].fd = e /\ n = t[i].n
    BY <1>5 DEF NumbersFor
  <2>2. i + 1 \in DOMAIN s /\ s[i + 1].fd = e /\ n = s[i + 1].n /\ 1 < i + 1
    BY <1>1, <1>2, <2>1
  <2>. QED  BY <1>1, <2>2 DEF NumbersFor, InOrderFor
<1>6. ASSUME NEW n \in NumbersFor(s, e)
      PROVE  n \in NumbersFor(t, e) \/ (s[1].fd = e /\ n = s[1].n)
  <2>1. PICK i \in DOMAIN s : s[i].fd = e /\ n = s[i].n
    BY <1>6 DEF NumbersFor
  <2>. QED  BY <1>3, <2>1 DEF NumbersFor
<1>7. s[1].fd = e => s[1].n \in NumbersFor(s, e)
  BY <1>1 DEF NumbersFor
<1>. QED  BY <1>1, <1>4, <1>5, <1>6, <1>7 DEF InOrderFor, t

-----------------------------------------------------------------------------
(* The invariant.                                                            *)

LEMMA InvInit == Init => Inv
<1>. SUFFICES ASSUME Init PROVE Inv
  OBVIOUS
<1>1. TypeOK
  BY TypeInit
<1>2. DescriptorsConsistent /\ BothEndsTogether
  BY Sentinels DEF Init, DescriptorsConsistent, BothEndsTogether, HasEntry
<1>3. ConnectedOnce
  BY DEF Init, ConnectedOnce, Waits
<1>4. MessagesAddressed /\ NoCrossTalk
  BY DEF Init, MessagesAddressed, NoCrossTalk
<1>. QED  BY <1>1, <1>2, <1>3, <1>4 DEF Inv

\* The parts of Inv that a step which leaves their variables alone keeps.
LEMMA TablesSame ==
  ASSUME TablesInv, UNCHANGED <<sock, fd_cell, fd_to_channel_status>>
  PROVE  TablesInv' /\ CellsShrink
BY DEF TablesInv, DescriptorsConsistent, BothEndsTogether, CellsShrink,
       HasEntry, EndOf, Disconnected

LEMMA MessagesSame ==
  ASSUME MessagesAddressed, UNCHANGED network
  PROVE  MessagesAddressed'
BY DEF MessagesAddressed

LEMMA OutSame ==
  ASSUME NoCrossTalk, UNCHANGED out
  PROVE  NoCrossTalk'
BY DEF NoCrossTalk

\* The programs' steps touch neither the tables nor the buffers.
LEMMA EnvironmentStep ==
  ASSUME Inv, Environment
  PROVE  TablesInv' /\ ConnectedOnce' /\ MessagesAddressed' /\ NoCrossTalk'
<1>. USE DEF kernel, tables, buffers
<1>1. UNCHANGED <<sock, fd_cell, fd_to_channel_status, network, out>>
  BY DEF Environment, ClientConnect, AppSend, AppClose
<1>2. TablesInv' /\ CellsShrink /\ MessagesAddressed' /\ NoCrossTalk'
  BY <1>1, TablesSame, MessagesSame, OutSame DEF Inv, TablesInv
<1>3. CASE \E c \in Conn : ClientConnect(c)
  BY <1>2, <1>3, ConnectKeeps DEF Inv
<1>4. CASE UNCHANGED kernel
  BY <1>1, <1>2, <1>4, ShrinkKeepsConnected DEF Inv
<1>. QED  BY <1>2, <1>3, <1>4 DEF Environment, AppSend, AppClose

LEMMA AcceptStep ==
  ASSUME Inv, Accept
  PROVE  TablesInv' /\ ConnectedOnce' /\ MessagesAddressed' /\ NoCrossTalk'
<1>. USE DEF kernel, tables, buffers
<1>0. PICK c \in Conn : AcceptConnect(c) \/ AcceptRefused(c) \/ AcceptLeaks(c) \/ AcceptDies(c)
  BY DEF Accept
<1>1. Accepting(c) /\ UNCHANGED <<network, out>>
  BY <1>0 DEF AcceptConnect, AcceptRefused, AcceptLeaks, AcceptDies, Accepting
<1>2. MessagesAddressed' /\ NoCrossTalk'
  BY <1>1, MessagesSame, OutSame DEF Inv
<1>3. CASE AcceptConnect(c)
  <2>1. PICK f \in FreeFd, g \in FreeFd :
          f # g /\ add_fd_to_channel(c, f, g)
    BY <1>3 DEF AcceptConnect, IsLowest
  <2>2. f \in Fd /\ g \in Fd /\ sock[f] = Free /\ sock[g] = Free
    BY DEF FreeFd
  <2>3. Waits(c)
    <3>1. backlog \in Seq(Conn) /\ backlog # <<>> /\ c = Head(backlog)
      BY <1>1 DEF Accepting, Inv, TypeOK
    <3>2. 1 \in DOMAIN backlog /\ backlog[1] = c
      BY <3>1, HeadTailProperties
    <3>. QED  BY <3>2 DEF Waits
  <2>4. fd_cell[<<c, "client">>] = NoFd /\ fd_cell[<<c, "peer">>] = NoFd
    BY <2>3 DEF Inv, ConnectedOnce, End, Side
  <2>5. TablesInv' /\ \A e \in End : e[1] # c => fd_cell'[e] = fd_cell[e]
    BY <2>1, <2>2, <2>4, AddKeeps DEF Inv, TablesInv
  <2>6. ConnectedOnce'
    BY <1>1, <1>3, <2>5, TakeKeepsConnected DEF Inv, AcceptConnect
  <2>. QED  BY <1>2, <2>5, <2>6
<1>4. CASE AcceptRefused(c)
  <2>1. TablesInv'
    BY <1>4, TablesSame DEF AcceptRefused, Inv, TablesInv
  <2>2. ConnectedOnce'
    BY <1>4, TakeKeepsConnected DEF AcceptRefused, Inv
  <2>. QED  BY <1>2, <2>1, <2>2
<1>5. CASE AcceptLeaks(c)
  <2>1. PICK g \in FreeFd : sock' = [sock EXCEPT ![g] = Leaked]
    BY <1>5 DEF AcceptLeaks
  <2>2. g \in Fd /\ sock[g] = Free /\ UNCHANGED <<fd_cell, fd_to_channel_status>>
    BY <1>5 DEF AcceptLeaks, FreeFd
  <2>3. ~HasEntry(g)
    BY <2>2, EntryType, Sentinels DEF Inv, DescriptorsConsistent
  <2>4. \A f \in Fd : f # g => sock'[f] = sock[f]
    BY <2>1 DEF Inv, TypeOK
  <2>5. sock'[g] = Leaked
    BY <2>1, <2>2 DEF Inv, TypeOK
  <2>6. TablesInv'
    BY <2>2, <2>3, <2>4, <2>5, Sentinels
    DEF Inv, TablesInv, DescriptorsConsistent, BothEndsTogether, HasEntry, EndOf,
        Disconnected
  <2>7. ConnectedOnce'
    BY <1>5, <2>2, TakeKeepsConnected DEF AcceptLeaks, Inv
  <2>. QED  BY <1>2, <2>6, <2>7
<1>6. CASE AcceptDies(c)
  <2>1. TablesInv' /\ CellsShrink
    BY <1>6, TablesSame DEF AcceptDies, Inv, TablesInv
  <2>2. ConnectedOnce'
    BY <1>6, <2>1, ShrinkKeepsConnected DEF AcceptDies, Accepting, Inv
  <2>. QED  BY <1>2, <2>1, <2>2
<1>. QED  BY <1>0, <1>3, <1>4, <1>5, <1>6

LEMMA ReceiveStep ==
  ASSUME Inv, NEW f \in Fd, do_receive(f)
  PROVE  TablesInv' /\ ConnectedOnce' /\ MessagesAddressed' /\ NoCrossTalk'
<1>. USE DEF kernel, tables, buffers
<1>1. HasEntry(f) /\ UNCHANGED <<asked, backlog>>
  BY DEF do_receive, ReceiveFrame, ReceiveEnd, EndsConnection, ReceiveRaw, Readable
<1>2. SUFFICES TablesInv' /\ CellsShrink /\ MessagesAddressed' /\ NoCrossTalk'
  BY <1>1, ShrinkKeepsConnected DEF Inv
<1>. DEFINE e == EndOf(f)
<1>3. e \in End /\ Peer(e) \in End /\ Peer(Peer(e)) = e /\ Next_n(f) \in Nat
  BY <1>1, EntryType, PeerFacts DEF Inv, TypeOK, Next_n
<1>4. TypeOK /\ TablesInv
  BY DEF Inv, TablesInv
<1>5. Pair(f) \in SUBSET Fd /\ ClosedUnderPeer(Pair(f))
  BY <1>1, <1>4, PairType, PairClosed DEF TablesInv
<1>6. CASE ReceiveFrame(f)
  <2>. DEFINE m == NewMsg(f)
  <2>1. m \in Msg /\ m.from = Peer(m.fd)
    BY <1>3 DEF NewMsg, Msg
  <2>2. enqueue_msg(f, m)
    BY <1>6 DEF ReceiveFrame
  <2>. HIDE DEF m
  <2>3. CASE UNCHANGED <<out, tables, buffers>>
    BY <1>4, <2>3, TablesSame, MessagesSame, OutSame DEF Inv
  <2>4. CASE deliver(m) /\ UNCHANGED buffers
    BY <1>4, <2>1, <2>4, DeliverKeeps, MessagesSame DEF Inv
  <2>5. CASE BufferLast(Chan(e), m)
    <3>1. MessagesAddressed'
      BY <1>3, <2>1, <2>5, ChanType, BufferKeeps DEF Inv
    <3>. QED  BY <1>4, <2>5, <3>1, TablesSame, OutSame DEF BufferLast, Inv
  <2>. QED  BY <2>2, <2>3, <2>4, <2>5 DEF enqueue_msg
<1>7. CASE ReceiveEnd(f)
  <2>1. Close(Pair(f)) /\ UNCHANGED <<out, network>>
    BY <1>7 DEF ReceiveEnd
  <2>. QED  BY <1>4, <1>5, <2>1, CloseKeeps, MessagesSame, OutSame DEF Inv, TablesInv
<1>8. CASE ReceiveRaw(f)
  <2>. DEFINE g == fd_cell[Peer(e)]
              item(whole) ==
                [from |-> e, n |-> Next_n(f), raw |-> TRUE, whole |-> whole]
  <2>1. UNCHANGED network /\ (PassOn(f, g) \/ PassOnFails(f, g))
    BY <1>8 DEF ReceiveRaw
  <2>2. CASE PassOn(f, g)
    <3>1. PICK whole \in BOOLEAN :
            g \in Fd /\ WriteItem(g, item(whole))
            /\ UNCHANGED <<sock, fd_cell, fd_to_channel_status>>
      BY <2>2 DEF PassOn, OnConnection
    <3>2. sock[g] = Peer(e)
      BY <1>3, <1>4, <3>1, Sentinels DEF TablesInv, DescriptorsConsistent
    <3>3. item(whole) \in Item /\ item(whole).from = Peer(sock[g])
      BY <1>3, <3>2 DEF Item
    <3>4. NoCrossTalk'
      BY <1>3, <3>1, <3>2, <3>3, WriteKeeps DEF Inv
    <3>. QED  BY <1>4, <2>1, <3>1, <3>4, TablesSame, MessagesSame DEF Inv
  <2>3. CASE PassOnFails(f, g)
    <3>1. Close(Pair(f)) /\ UNCHANGED out
      BY <2>3 DEF PassOnFails
    <3>. QED  BY <1>4, <1>5, <2>1, <3>1, CloseKeeps, MessagesSame, OutSame DEF Inv, TablesInv
  <2>. QED  BY <2>1, <2>2, <2>3
<1>. QED  BY <1>6, <1>7, <1>8 DEF do_receive

LEMMA CommandStep ==
  ASSUME Inv, Commands
  PROVE  TablesInv' /\ ConnectedOnce' /\ MessagesAddressed' /\ NoCrossTalk'
<1>. USE DEF kernel, tables, buffers
<1>1. UNCHANGED <<asked, backlog>>
  BY DEF Commands, DeliverCmd, Delivery, DequeueDead, DequeueDeliver, Dequeue,
         DeliverTimeout, partition, recover, print_status
<1>2. SUFFICES TablesInv' /\ CellsShrink /\ MessagesAddressed' /\ NoCrossTalk'
  BY <1>1, ShrinkKeepsConnected DEF Inv
<1>3. TypeOK /\ TablesInv
  BY DEF Inv, TablesInv
<1>4. ASSUME NEW ch \in Channel, DeliverCmd(ch)
      PROVE  TablesInv' /\ CellsShrink /\ MessagesAddressed' /\ NoCrossTalk'
  BY <1>3, <1>4, TablesSame, MessagesSame, OutSame DEF DeliverCmd, Inv
<1>5. CASE DequeueDead
  <2>1. MessagesAddressed'
    BY <1>5, DequeueKeeps DEF DequeueDead, Inv
  <2>. QED  BY <1>3, <1>5, <2>1, TablesSame, OutSame DEF DequeueDead, Inv
<1>6. CASE DequeueDeliver
  <2>1. MessagesAddressed' /\ HeadMsg \in Msg /\ HeadMsg.from = Peer(HeadMsg.fd)
    BY <1>6, DequeueKeeps DEF DequeueDeliver, Inv
  <2>2. deliver(HeadMsg)
    BY <1>6 DEF DequeueDeliver
  <2>. QED  BY <1>3, <2>1, <2>2, DeliverKeeps DEF Inv
<1>7. CASE DeliverTimeout
  BY <1>3, <1>7, TablesSame, MessagesSame, OutSame DEF DeliverTimeout, Inv
<1>8. ASSUME NEW node \in Node, partition(node)
      PROVE  TablesInv' /\ CellsShrink /\ MessagesAddressed' /\ NoCrossTalk'
  <2>1. Tag(PairsOf(node)) /\ UNCHANGED <<out, network>>
    BY <1>8 DEF partition
  <2>. QED  BY <1>3, <2>1, PairsOfClosed, TagKeeps, MessagesSame, OutSame
            DEF Inv, TablesInv
<1>9. ASSUME NEW node \in Node, recover(node)
      PROVE  TablesInv' /\ CellsShrink /\ MessagesAddressed' /\ NoCrossTalk'
  <2>1. Close(PairsOf(node)) /\ UNCHANGED out
    BY <1>9 DEF recover
  <2>2. \A ch \in Channel : network'[ch] = <<>> \/ network'[ch] = network[ch]
    BY <1>9 DEF recover
  <2>3. MessagesAddressed'
    BY <2>2 DEF Inv, MessagesAddressed
  <2>. QED  BY <1>3, <2>1, <2>3, PairsOfClosed, CloseKeeps, OutSame
            DEF Inv, TablesInv
<1>10. CASE print_status
  BY <1>3, <1>10, TablesSame, MessagesSame, OutSame DEF print_status, Inv
<1>. QED  BY <1>4, <1>5, <1>6, <1>7, <1>8, <1>9, <1>10 DEF Commands, Delivery

LEMMA InvStep == Inv /\ [Next]_vars => Inv'
<1>. SUFFICES ASSUME Inv, [Next]_vars PROVE Inv'
  OBVIOUS
<1>1. TypeOK'
  BY TypeStep DEF Inv
<1>2. CASE Environment
  BY <1>1, <1>2, EnvironmentStep DEF Inv, TablesInv
<1>3. CASE Epoll
  BY <1>1, <1>3, AcceptStep, ReceiveStep DEF Epoll, Inv, TablesInv
<1>4. CASE Commands
  BY <1>1, <1>4, CommandStep DEF Inv, TablesInv
<1>5. CASE UNCHANGED vars
  <2>1. UNCHANGED <<asked, backlog, network, out, sock, fd_cell, fd_to_channel_status>>
    BY <1>5 DEF vars, kernel, tables, buffers
  <2>2. TablesInv' /\ CellsShrink /\ MessagesAddressed' /\ NoCrossTalk'
    BY <2>1, TablesSame, MessagesSame, OutSame DEF Inv, TablesInv
  <2>. QED  BY <1>1, <2>1, <2>2, ShrinkKeepsConnected DEF Inv, TablesInv
<1>. QED  BY <1>2, <1>3, <1>4, <1>5 DEF Next

\* The inductive invariant: the tables agree, a connection is accepted once,
\* and every buffered message is addressed to the other end of its connection.
THEOREM Invariance == Spec => []Inv
<1>1. Inv /\ [Next]_vars => Inv'
  BY InvStep
<1>. QED  BY InvInit, <1>1, PTL DEF Spec

\* No descriptor is lost, aliased or left behind, however accepts, closes,
\* failed writes, partitions and recoveries follow one another.
THEOREM DescriptorSafety == Spec => []DescriptorsConsistent
<1>1. Inv => DescriptorsConsistent
  BY DEF Inv
<1>. QED  BY Invariance, <1>1, PTL

\* The two descriptors of a connection live, are marked and die together.
THEOREM PairSafety == Spec => []BothEndsTogether
<1>1. Inv => BothEndsTogether
  BY DEF Inv
<1>. QED  BY Invariance, <1>1, PTL

\* No program ever receives what was sent on another connection.
THEOREM Isolation == Spec => []NoCrossTalk
<1>1. Inv => NoCrossTalk
  BY DEF Inv
<1>. QED  BY Invariance, <1>1, PTL
=============================================================================
