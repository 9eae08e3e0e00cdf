------------------------------ MODULE LinkProofs ------------------------------
(* Theorems about what flows through the router: frames arrive in order,     *)
(* unframed bytes only after a bad frame, and the router implements Link,    *)
(* for every set of connections, routes, descriptors, budgets and faults.    *)
EXTENDS TcpNetworkProofs, FiniteSetTheorems

-----------------------------------------------------------------------------
(* Sequences of received items.                                              *)

\* How many frames are among the items an end has received.
FrameAt(items) == {i \in DOMAIN items : ~items[i].raw}
FrameCount(items) == Cardinality(FrameAt(items))

LEMMA FrameCounts ==
  ASSUME NEW s \in Seq(Item), NEW item \in Item
  PROVE  /\ FrameCount(s) \in Nat
         /\ FrameCount(Append(s, item)) = FrameCount(s) + (IF item.raw THEN 0 ELSE 1)
<1>. DEFINE t == Append(s, item)
<1>1. /\ DOMAIN s = 1 .. Len(s) /\ Len(s) \in Nat /\ DOMAIN t = 1 .. (Len(s) + 1)
      /\ \A i \in 1 .. Len(s) : t[i] = s[i]
      /\ t[Len(s) + 1] = item
  BY AppendProperties
<1>. HIDE DEF t
<1>2. IsFiniteSet(DOMAIN s)
  BY <1>1, FS_Interval
<1>3. IsFiniteSet(FrameAt(s))
  <2>1. FrameAt(s) \subseteq DOMAIN s
    BY DEF FrameAt
  <2>. QED  BY <1>2, <2>1, FS_Subset
<1>4. FrameCount(s) \in Nat
  BY <1>3, FS_CardinalityType DEF FrameCount
<1>5. CASE item.raw
  <2>1. FrameAt(t) = FrameAt(s)
    BY <1>1, <1>5 DEF FrameAt
  <2>. QED  BY <1>4, <1>5, <2>1 DEF FrameCount, t
<1>6. CASE ~item.raw
  <2>1. FrameAt(t) = FrameAt(s) \cup {Len(s) + 1} /\ Len(s) + 1 \notin FrameAt(s)
    BY <1>1, <1>6 DEF FrameAt
  <2>2. Cardinality(FrameAt(t)) = Cardinality(FrameAt(s)) + 1
    BY <1>3, <2>1, FS_AddElement
  <2>. QED  BY <1>4, <1>6, <2>2 DEF FrameCount, t
<1>. QED  BY <1>5, <1>6

-----------------------------------------------------------------------------
(* The invariant.                                                            *)

\* The end e has a descriptor and is not marked disconnected.
Up(e) == fd_cell[e] # NoFd /\ ~Disconnected(fd_cell[e])

\* The connection has not been accepted yet.
New(c) == c \notin asked \/ Waits(c)

\* Nothing is read, and nothing received, before it is written.
ReadBounds ==
  \A e \in End :
    /\ read[e] <= Len(sent[e])
    /\ \A i \in DOMAIN out[e] : out[e][i].n \in 1 .. read[Peer(e)]

NewIsEmpty ==
  /\ \A e \in End : New(e[1]) => out[e] = <<>> /\ read[e] = 0
  /\ \A ch \in Channel : \A i \in DOMAIN network[ch] : ~New(network[ch][i].fd[1])

\* A message waits on the channel it was read from.
OwnChannel ==
  \A ch \in Channel : \A i \in DOMAIN network[ch] : Chan(network[ch][i].from) = ch

\* A descriptor is unintercepted because its own end has sent bytes that fail
\* validation, and they have been read.
RawKnown ==
  \A f \in unintercepted_fd :
    HasEntry(f) /\ \E j \in 1 .. read[EndOf(f)] : sent[EndOf(f)][j] = "raw"

\* The frames for e are numbered from 1 to last without a gap: e has received
\* the first of them, the others are buffered in order, and whatever was passed
\* on to e without framing was written after them.
InFlight(e) ==
  \E last \in 0 .. read[Peer(e)] :
    /\ fd_cell[Peer(e)] \notin unintercepted_fd => last = read[Peer(e)]
    /\ \A i \in DOMAIN out[e] : out[e][i].raw => last < out[e][i].n
    /\ FrameCount(out[e]) <= last
    /\ NumbersFor(Buffered(e), e) = (FrameCount(out[e]) + 1) .. last
    /\ InOrderFor(Buffered(e), e)

FramesFollow == \A e \in End : Up(e) => InFlight(e)

\* With DIRECT nothing is buffered or marked, and all that was read is out.
DirectForwarded ==
  is_direct =>
    /\ DirectKeepsOrder
    /\ \A e \in End : fd_cell[e] # NoFd => Up(e) /\ Len(out[e]) = read[Peer(e)]
    /\ \A ch \in Channel : DOMAIN network[ch] = {}

FlowInv ==
  /\ ReadBounds /\ NewIsEmpty /\ OwnChannel /\ RawKnown /\ FramesFollow
  /\ DirectForwarded /\ RawOnlyAfterBadFrame

LEMMA EmptyCount == FrameCount(<<>>) = 0
<1>1. FrameAt(<<>>) = {}
  BY DEF FrameAt
<1>. QED  BY <1>1, FS_EmptySet DEF FrameCount

LEMMA FlowInit == Init => FlowInv
<1>. SUFFICES ASSUME Init PROVE FlowInv
  OBVIOUS
<1>1. \A e \in End : read[e] = 0 /\ sent[e] = <<>> /\ out[e] = <<>> /\ fd_cell[e] = NoFd
  BY DEF Init
<1>2. \A ch \in Channel : network[ch] = <<>>
  BY DEF Init
<1>3. ReadBounds /\ NewIsEmpty /\ OwnChannel /\ FramesFollow
  BY <1>1, <1>2 DEF ReadBounds, NewIsEmpty, OwnChannel, FramesFollow, Up
<1>4. RawKnown
  BY DEF Init, RawKnown
<1>5. DirectForwarded /\ RawOnlyAfterBadFrame
  BY <1>1, <1>2 DEF DirectForwarded, RawOnlyAfterBadFrame, DirectKeepsOrder
<1>. QED  BY <1>3, <1>4, <1>5 DEF FlowInv

\* A step by which no end receives anything: what is read is dropped together
\* with its connection, what leaves a buffer belongs to no open connection, and
\* ends come up only as those of a connection just accepted.
QuietFor(e) ==
  /\ Len(sent[e]) <= Len(sent'[e])
  /\ \A j \in 1 .. Len(sent[e]) : sent'[e][j] = sent[e][j]
  /\ read[e] <= read'[e] /\ read'[e] <= Len(sent'[e])
  /\ New(e[1])' => New(e[1]) /\ read'[e] = read[e]
  /\ Up(e)' => /\ Up(e) \/ New(e[1])
               /\ read'[Peer(e)] = read[Peer(e)]
               /\ NumbersFor(Buffered(e), e)' = NumbersFor(Buffered(e), e)
               /\ InOrderFor(Buffered(e), e) => InOrderFor(Buffered(e), e)'
               /\ Up(e) /\ fd_cell[Peer(e)] \in unintercepted_fd
                    => fd_cell'[Peer(e)] \in unintercepted_fd'
  /\ is_direct /\ fd_cell'[e] # NoFd =>
       Up(e)' /\ (fd_cell[e] # NoFd \/ New(e[1]))
Quiet ==
  /\ \A e \in End : QuietFor(e)
  /\ out' = out
  /\ \A ch \in Channel : \A i \in DOMAIN network'[ch] :
       \E j \in DOMAIN network[ch] : network'[ch][i] = network[ch][j]
  /\ \A f \in unintercepted_fd' :
       f \in unintercepted_fd /\ HasEntry(f)' /\ EndOf(f)' = EndOf(f)

\* A connection just accepted carries nothing yet.
LEMMA NewInFlight ==
  ASSUME TypeOK, FlowInv, NEW e \in End, New(e[1])
  PROVE  /\ out[e] = <<>> /\ read[Peer(e)] = 0 /\ FrameCount(out[e]) = 0
         /\ NumbersFor(Buffered(e), e) = {} /\ InOrderFor(Buffered(e), e)
<1>1. Peer(e) \in End /\ Peer(e)[1] = e[1] /\ Chan(Peer(e)) \in Channel
  BY PeerFacts, ChanType DEF Peer
<1>2. out[e] = <<>> /\ read[Peer(e)] = 0
  BY <1>1 DEF FlowInv, NewIsEmpty
<1>3. \A i \in DOMAIN Buffered(e) : Buffered(e)[i].fd # e
  BY <1>1 DEF FlowInv, NewIsEmpty, Buffered
<1>. QED  BY <1>2, <1>3, EmptyCount DEF NumbersFor, InOrderFor

LEMMA QuietFlow ==
  ASSUME TypeOK, NoCrossTalk, FlowInv, TypeOK', Quiet
  PROVE  FlowInv'
<1>1. out' = out /\ \A e \in End : QuietFor(e) /\ QuietFor(Peer(e))
  BY PeerFacts DEF Quiet
<1>2. \A e \in End : /\ read[e] \in Nat /\ read'[e] \in Nat /\ read[e] <= Len(sent[e])
                     /\ Len(sent[e]) \in Nat /\ Len(sent'[e]) \in Nat
  BY DEF TypeOK, FlowInv, ReadBounds
<1>3. ReadBounds'
  BY <1>1, <1>2, PeerFacts DEF FlowInv, ReadBounds, QuietFor
<1>4. NewIsEmpty'
  <2>1. ASSUME NEW ch \in Channel, NEW i \in DOMAIN network'[ch],
               NEW c, c = network'[ch][i].fd[1]
        PROVE  ~New(c)'
    <3>1. PICK j \in DOMAIN network[ch] : network'[ch][i] = network[ch][j]
      BY <2>1 DEF Quiet
    <3>2. network[ch][j] \in Msg
      BY DEF TypeOK
    <3>3. network[ch][j].fd \in End /\ ~New(network[ch][j].fd[1])
      BY <3>2 DEF FlowInv, NewIsEmpty, Msg
    <3>. QED  BY <1>1, <2>1, <3>1, <3>3 DEF QuietFor
  <2>2. \A e \in End : New(e[1])' => out'[e] = <<>> /\ read'[e] = 0
    BY <1>1 DEF FlowInv, NewIsEmpty, QuietFor
  <2>. QED  BY <2>1, <2>2 DEF NewIsEmpty, New, Waits
<1>5. OwnChannel'
  BY DEF FlowInv, OwnChannel, Quiet
<1>6. RawKnown'
  <2>1. ASSUME NEW f \in unintercepted_fd'
        PROVE  HasEntry(f)' /\ \E j \in 1 .. read'[EndOf(f)'] : sent'[EndOf(f)'][j] = "raw"
    <3>1. f \in unintercepted_fd /\ HasEntry(f)' /\ EndOf(f)' = EndOf(f)
      BY <2>1 DEF Quiet
    <3>2. f \in Fd /\ HasEntry(f) /\ EndOf(f) \in End
      BY <3>1, EntryType DEF TypeOK, FlowInv, RawKnown
    <3>3. PICK j \in 1 .. read[EndOf(f)] : sent[EndOf(f)][j] = "raw"
      BY <3>1 DEF FlowInv, RawKnown
    <3>4. /\ read[EndOf(f)] <= read'[EndOf(f)] /\ read[EndOf(f)] <= Len(sent[EndOf(f)])
          /\ \A k \in 1 .. Len(sent[EndOf(f)]) : sent'[EndOf(f)][k] = sent[EndOf(f)][k]
          /\ read[EndOf(f)] \in Nat /\ read'[EndOf(f)] \in Nat
          /\ Len(sent[EndOf(f)]) \in Nat
      BY <1>1, <1>2, <3>2 DEF QuietFor
    <3>5. j \in 1 .. read'[EndOf(f)] /\ sent'[EndOf(f)][j] = "raw"
      BY <3>3, <3>4
    <3>. QED  BY <3>1, <3>5
  <2>. QED  BY <2>1 DEF RawKnown
<1>7. ASSUME NEW e \in End, Up(e)' PROVE InFlight(e)'
  <2>. DEFINE w == Peer(e)
              items == out[e]
  <2>1. /\ read'[w] = read[w] /\ out'[e] = out[e]
        /\ NumbersFor(Buffered(e), e)' = NumbersFor(Buffered(e), e)
        /\ InOrderFor(Buffered(e), e) => InOrderFor(Buffered(e), e)'
    BY <1>1, <1>7 DEF QuietFor
  <2>2. CASE Up(e)
    <3>1. fd_cell'[w] \notin unintercepted_fd' => fd_cell[w] \notin unintercepted_fd
      BY <1>1, <1>7, <2>2 DEF QuietFor
    <3>2. InFlight(e)
      BY <2>2 DEF FlowInv, FramesFollow
    <3>. QED  BY <2>1, <3>1, <3>2 DEF InFlight, FrameCount, FrameAt
  <2>3. CASE New(e[1])
    <3>1. /\ out[e] = <<>> /\ read[w] = 0 /\ FrameCount(out[e]) = 0
          /\ NumbersFor(Buffered(e), e) = {} /\ InOrderFor(Buffered(e), e)
      BY <2>3, NewInFlight
    <3>2. /\ out'[e] = <<>> /\ read'[w] = 0 /\ FrameCount(out'[e]) = 0
          /\ NumbersFor(Buffered(e), e)' = (0 + 1) .. 0 /\ InOrderFor(Buffered(e), e)'
      BY <2>1, <3>1
    <3>. QED  BY <3>2 DEF InFlight
  <2>. QED  BY <1>1, <1>7, <2>2, <2>3 DEF QuietFor
<1>8. FramesFollow'
  BY <1>7 DEF FramesFollow
<1>9. DirectForwarded'
  <2>1. SUFFICES ASSUME is_direct PROVE DirectForwarded'
    BY DEF DirectForwarded
  <2>2. DirectKeepsOrder'
    BY <1>1, <2>1 DEF FlowInv, DirectForwarded, DirectKeepsOrder
  <2>3. \A ch \in Channel : DOMAIN network'[ch] = {}
    BY <2>1 DEF FlowInv, DirectForwarded, Quiet
  <2>4. ASSUME NEW e \in End, fd_cell'[e] # NoFd
        PROVE  Up(e)' /\ Len(out'[e]) = read'[Peer(e)]
    <3>1. Up(e)' /\ (fd_cell[e] # NoFd \/ New(e[1])) /\ read'[Peer(e)] = read[Peer(e)]
      BY <1>1, <2>1, <2>4 DEF QuietFor
    <3>2. New(e[1]) => Len(out[e]) = 0 /\ read[Peer(e)] = 0
      BY NewInFlight
    <3>. QED  BY <1>1, <2>1, <3>1, <3>2 DEF FlowInv, DirectForwarded
  <2>. QED  BY <2>1, <2>2, <2>3, <2>4 DEF DirectForwarded
<1>10. RawOnlyAfterBadFrame'
  <2>1. ASSUME NEW e \in End, NEW i \in DOMAIN out[e], out[e][i].raw
        PROVE  \E j \in 1 .. out[e][i].n : sent'[out[e][i].from][j] = "raw"
    <3>1. PICK j \in 1 .. out[e][i].n : sent[out[e][i].from][j] = "raw"
      BY <2>1 DEF FlowInv, RawOnlyAfterBadFrame
    <3>2. out[e][i].from = Peer(e) /\ Peer(e) \in End
      BY PeerFacts DEF NoCrossTalk
    <3>3. out[e][i].n \in Nat /\ out[e][i].n <= Len(sent[Peer(e)])
      BY <1>2, <3>2 DEF FlowInv, ReadBounds
    <3>4. j \in 1 .. Len(sent[Peer(e)])
      BY <1>2, <3>2, <3>3
    <3>. QED  BY <1>1, <3>1, <3>2, <3>4 DEF QuietFor
  <2>. QED  BY <1>1, <2>1 DEF RawOnlyAfterBadFrame
<1>. QED  BY <1>3, <1>4, <1>5, <1>6, <1>8, <1>9, <1>10 DEF FlowInv

\* What closing and marking leave up.
LEMMA CloseUp ==
  ASSUME TypeOK, TypeOK', TablesInv, NEW F \in SUBSET Fd, ClosedUnderPeer(F), Close(F),
         NEW e \in End, fd_cell'[e] # NoFd
  PROVE  /\ fd_cell'[e] = fd_cell[e] /\ fd_cell[e] \in Fd /\ fd_cell[e] \notin F
         /\ Up(e)' <=> Up(e)
         /\ fd_cell'[Peer(e)] = fd_cell[Peer(e)] /\ fd_cell[Peer(e)] \notin F
<1>. DEFINE g == fd_cell[e]
<1>1. /\ fd_cell' = [x \in End |->
           IF \E f \in F : EndOf(f) = x THEN NoFd ELSE fd_cell[x]]
      /\ fd_to_channel_status' = [f \in Fd |->
           IF f \in F THEN NoEntry ELSE fd_to_channel_status[f]]
  BY DEF Close, ClearCells, EraseEntries
<1>2. fd_cell'[e] = g /\ g # NoFd /\ \A f \in F : EndOf(f) # e
  BY <1>1
<1>3. g \in Fd /\ HasEntry(g) /\ EndOf(g) = e
  BY <1>2 DEF TypeOK, TablesInv, DescriptorsConsistent
<1>4. g \notin F
  BY <1>2, <1>3
<1>5. fd_to_channel_status'[g] = fd_to_channel_status[g]
  BY <1>1, <1>3, <1>4
<1>6. Up(e)' <=> Up(e)
  BY <1>2, <1>5 DEF Up, Disconnected
<1>7. PICK h \in Fd : HasEntry(h) /\ EndOf(h) = Peer(e)
  BY <1>3 DEF TablesInv, BothEndsTogether
<1>8. fd_cell[Peer(e)] = h
  BY <1>7 DEF TablesInv, DescriptorsConsistent
<1>9. h \notin F
  BY <1>3, <1>4, <1>7, PeerFacts DEF ClosedUnderPeer
<1>10. \A f \in F : EndOf(f) # Peer(e)
  BY <1>8, <1>9 DEF ClosedUnderPeer, TablesInv, DescriptorsConsistent
<1>11. fd_cell'[Peer(e)] = fd_cell[Peer(e)]
  BY <1>1, <1>10, PeerFacts
<1>. QED  BY <1>2, <1>3, <1>4, <1>6, <1>8, <1>9, <1>11

LEMMA TagUp ==
  ASSUME TypeOK, TablesInv, NEW F \in SUBSET Fd, ClosedUnderPeer(F), Tag(F),
         NEW e \in End, Up(e)'
  PROVE  Up(e) /\ fd_cell[e] \in Fd /\ fd_cell[e] \notin F /\ fd_cell[Peer(e)] \notin F
<1>. DEFINE g == fd_cell[e]
<1>1. /\ fd_cell' = fd_cell
      /\ fd_to_channel_status' = [f \in Fd |->
           IF f \in F THEN [self_fd |-> EndOf(f), disconnected |-> TRUE]
                      ELSE fd_to_channel_status[f]]
  BY DEF Tag
<1>2. g # NoFd /\ ~fd_to_channel_status'[g].disconnected
  BY <1>1 DEF Up, Disconnected
<1>3. g \in Fd /\ HasEntry(g) /\ EndOf(g) = e
  BY <1>2 DEF TypeOK, TablesInv, DescriptorsConsistent
<1>4. g \notin F
  BY <1>1, <1>2, <1>3
<1>5. Up(e)
  BY <1>1, <1>2, <1>3, <1>4 DEF Up, Disconnected
<1>6. PICK h \in Fd : HasEntry(h) /\ EndOf(h) = Peer(e)
  BY <1>3 DEF TablesInv, BothEndsTogether
<1>7. fd_cell[Peer(e)] = h
  BY <1>6 DEF TablesInv, DescriptorsConsistent
<1>8. h \notin F
  BY <1>3, <1>4, <1>6, PeerFacts DEF ClosedUnderPeer
<1>. QED  BY <1>3, <1>4, <1>5, <1>7, <1>8

\* Entries of unintercepted descriptors survive with their ends.
LEMMA CloseRaw ==
  ASSUME TypeOK, RawKnown, NEW F \in SUBSET Fd, Close(F), NEW f \in unintercepted_fd'
  PROVE  f \in unintercepted_fd /\ HasEntry(f)' /\ EndOf(f)' = EndOf(f)
<1>1. f \in unintercepted_fd /\ f \in Fd /\ f \notin F /\ HasEntry(f)
  BY DEF Close, EraseUnintercepted, TypeOK, RawKnown
<1>2. fd_to_channel_status'[f] = fd_to_channel_status[f]
  BY <1>1 DEF Close, EraseEntries
<1>. QED  BY <1>1, <1>2 DEF HasEntry, EndOf

LEMMA TagRaw ==
  ASSUME TypeOK, RawKnown, NEW F \in SUBSET Fd, \A f \in F : HasEntry(f), Tag(F),
         NEW f \in unintercepted_fd'
  PROVE  f \in unintercepted_fd /\ HasEntry(f)' /\ EndOf(f)' = EndOf(f)
<1>1. f \in unintercepted_fd /\ f \in Fd /\ HasEntry(f)
  BY DEF Tag, TypeOK, RawKnown
<1>2. CASE f \notin F
  <2>1. fd_to_channel_status'[f] = fd_to_channel_status[f]
    BY <1>1, <1>2 DEF Tag
  <2>. QED  BY <1>1, <2>1 DEF HasEntry, EndOf
<1>3. CASE f \in F
  <2>1. fd_to_channel_status'[f] = [self_fd |-> EndOf(f), disconnected |-> TRUE]
    BY <1>1, <1>3 DEF Tag
  <2>2. EndOf(f)' = EndOf(f) /\ EndOf(f) \in End
    BY <1>1, <2>1, EntryType DEF EndOf
  <2>3. fd_to_channel_status'[f] \in [self_fd : End, disconnected : BOOLEAN]
    BY <2>1, <2>2
  <2>. QED  BY <1>1, <2>2, <2>3, Sentinels DEF HasEntry
<1>. QED  BY <1>2, <1>3

-----------------------------------------------------------------------------
(* The quiet steps.                                                          *)

\* Steps that leave the tables and the buffers alone.
LEMMA QuietSame ==
  ASSUME TypeOK, FlowInv,
         UNCHANGED <<fd_cell, fd_to_channel_status, unintercepted_fd, network, read, out>>,
         \A e \in End : /\ Len(sent[e]) <= Len(sent'[e])
                        /\ \A j \in 1 .. Len(sent[e]) : sent'[e][j] = sent[e][j],
         TypeOK', \A c \in Conn : New(c)' => New(c)
  PROVE  Quiet
<1>1. \A e \in End : /\ e[1] \in Conn /\ read[e] <= Len(sent[e]) /\ read[e] \in Nat
                     /\ Len(sent[e]) \in Nat /\ Len(sent'[e]) \in Nat
  BY DEF End, TypeOK, FlowInv, ReadBounds
<1>2. ASSUME NEW e \in End PROVE QuietFor(e)
  <2>1. /\ Up(e)' <=> Up(e)
        /\ NumbersFor(Buffered(e), e)' = NumbersFor(Buffered(e), e)
        /\ InOrderFor(Buffered(e), e)' <=> InOrderFor(Buffered(e), e)
    BY DEF Up, Disconnected, NumbersFor, InOrderFor, Buffered
  <2>2. read[e] <= read'[e] /\ read'[e] <= Len(sent'[e])
    BY <1>1
  <2>3. is_direct /\ fd_cell'[e] # NoFd => Up(e) /\ fd_cell[e] # NoFd
    BY DEF FlowInv, DirectForwarded
  <2>. QED  BY <1>1, <2>1, <2>2, <2>3 DEF QuietFor
<1>3. \A f \in unintercepted_fd' :
        f \in unintercepted_fd /\ HasEntry(f)' /\ EndOf(f)' = EndOf(f)
  BY DEF FlowInv, RawKnown, HasEntry, EndOf
<1>. QED  BY <1>2, <1>3 DEF Quiet

LEMMA EnvironmentQuiet ==
  ASSUME TypeOK, FlowInv, TypeOK', Environment
  PROVE  Quiet
<1>. USE DEF kernel, tables, buffers
<1>1. ASSUME NEW c \in Conn, ClientConnect(c) PROVE Quiet
  <2>1. /\ backlog \in Seq(Conn) /\ backlog' = Append(backlog, c)
        /\ c \notin asked /\ asked' = asked \cup {c}
    BY <1>1 DEF ClientConnect, TypeOK
  <2>2. /\ DOMAIN backlog = 1 .. Len(backlog) /\ Len(backlog) \in Nat
        /\ DOMAIN backlog' = 1 .. (Len(backlog) + 1)
        /\ \A i \in DOMAIN backlog : backlog'[i] = backlog[i]
        /\ backlog'[Len(backlog) + 1] = c
    BY <2>1, AppendProperties
  <2>3. \A d \in Conn : New(d)' => New(d)
    BY <2>1, <2>2 DEF New, Waits
  <2>. QED  BY <1>1, <2>3, QuietSame DEF ClientConnect, TypeOK
<1>2. ASSUME NEW e \in End, NEW k \in AllKinds \cup {"eof"},
             sent' = [sent EXCEPT ![e] = Append(@, k)],
             UNCHANGED <<kernel, read, out, up, tables, buffers>>
      PROVE  Quiet
  <2>1. sent[e] \in Seq(AllKinds \cup {"eof"}) /\ sent'[e] = Append(sent[e], k)
        /\ \A x \in End : x # e => sent'[x] = sent[x]
    BY <1>2 DEF TypeOK
  <2>2. /\ Len(sent[e]) \in Nat /\ Len(sent'[e]) = Len(sent[e]) + 1
        /\ \A j \in 1 .. Len(sent[e]) : sent'[e][j] = sent[e][j]
    BY <2>1, AppendProperties
  <2>3. \A x \in End : Len(sent[x]) \in Nat
    BY DEF TypeOK
  <2>4. ASSUME NEW x \in End
        PROVE  /\ Len(sent[x]) <= Len(sent'[x])
               /\ \A j \in 1 .. Len(sent[x]) : sent'[x][j] = sent[x][j]
    BY <2>1, <2>2, <2>3
  <2>5. \A d \in Conn : New(d)' => New(d)
    BY <1>2 DEF New, Waits
  <2>. QED  BY <1>2, <2>4, <2>5, QuietSame
<1>3. ASSUME NEW e \in End, AppClose(e) PROVE Quiet
  BY <1>2, <1>3 DEF AppClose
<1>4. ASSUME NEW e \in End, NEW k \in Kinds, AppSend(e, k) PROVE Quiet
  BY <1>2, <1>4, ConstantsAssumption DEF AppSend
<1>. QED  BY <1>1, <1>3, <1>4 DEF Environment

\* Accepting takes a connection from the backlog; the others wait on.
LEMMA TakenNew ==
  ASSUME TypeOK, NEW c \in Conn, Accepting(c), Taken
  PROVE  /\ Waits(c) /\ \A d \in Conn : New(d)' => New(d)
         /\ \A d \in Conn : d # c => (New(d)' <=> New(d))
<1>1. /\ backlog \in Seq(Conn) /\ backlog # <<>> /\ c = Head(backlog)
      /\ backlog' = Tail(backlog) /\ asked' = asked
  BY DEF Accepting, Taken, TypeOK
<1>2. /\ Len(backlog) \in Nat /\ Len(backlog) > 0 /\ backlog[1] = c
      /\ DOMAIN backlog = 1 .. Len(backlog)
      /\ DOMAIN backlog' = 1 .. (Len(backlog) - 1)
      /\ \A i \in DOMAIN backlog' : backlog'[i] = backlog[i + 1]
  BY <1>1, HeadTailProperties
<1>3. \A i \in DOMAIN backlog' : i + 1 \in DOMAIN backlog
  BY <1>2
<1>4. \A i \in DOMAIN backlog : i = 1 \/ (i - 1 \in DOMAIN backlog' /\ (i - 1) + 1 = i)
  BY <1>2
<1>5. \A d \in Conn : Waits(d)' => Waits(d)
  BY <1>2, <1>3 DEF Waits
<1>6. \A d \in Conn : d # c /\ Waits(d) => Waits(d)'
  BY <1>1, <1>2, <1>4 DEF Waits
<1>7. Waits(c)
  BY <1>2 DEF Waits
<1>. QED  BY <1>1, <1>5, <1>6, <1>7 DEF New

\* The connection accepted comes up at both ends, the others stay as they are.
LEMMA AcceptOpens ==
  ASSUME Inv, RawKnown, TypeOK', NEW c \in Conn, AcceptConnect(c)
  PROVE  /\ New(c) /\ \A d \in Conn : New(d)' => New(d)
         /\ \A d \in Conn : d # c => (New(d)' <=> New(d))
         /\ UNCHANGED <<sent, read, out, network, unintercepted_fd>>
         /\ \A h \in unintercepted_fd :
              h \in Fd /\ HasEntry(h) /\ fd_to_channel_status'[h] = fd_to_channel_status[h]
         /\ \A e \in End : e[1] # c =>
              /\ fd_cell'[e] = fd_cell[e] /\ (Up(e)' <=> Up(e))
              /\ fd_cell'[Peer(e)] = fd_cell[Peer(e)]
         /\ \A e \in End : e[1] = c => Up(e)'
<1>1. TypeOK /\ UNCHANGED <<sent, read, out, network>>
  BY DEF AcceptConnect, Accepting, Inv, buffers
<1>2. PICK f \in FreeFd, g \in FreeFd : f # g /\ add_fd_to_channel(c, f, g)
  BY DEF AcceptConnect, IsLowest
<1>3. f \in Fd /\ g \in Fd /\ sock[f] = Free /\ sock[g] = Free
  BY DEF FreeFd
<1>4. ~HasEntry(f) /\ ~HasEntry(g)
  BY <1>1, <1>3, EntryType, Sentinels DEF Inv, DescriptorsConsistent
<1>5. /\ New(c) /\ \A d \in Conn : New(d)' => New(d)
      /\ \A d \in Conn : d # c => (New(d)' <=> New(d))
  BY <1>1, TakenNew DEF AcceptConnect, New
<1>6. /\ \A e \in End : e[1] # c => fd_cell'[e] = fd_cell[e]
      /\ \A h \in Fd : h # f /\ h # g => fd_to_channel_status'[h] = fd_to_channel_status[h]
      /\ fd_to_channel_status'[f].disconnected = FALSE
      /\ fd_to_channel_status'[g].disconnected = FALSE
      /\ fd_cell'[<<c, "client">>] = f /\ fd_cell'[<<c, "peer">>] = g
      /\ unintercepted_fd' = unintercepted_fd
  <2>. DEFINE client == <<c, "client">>
              peer == <<c, "peer">>
  <2>1. client \in End /\ peer \in End /\ client # peer /\ client[1] = c /\ peer[1] = c
    BY DEF End, Side
  <2>2. /\ fd_cell' = [fd_cell EXCEPT ![client] = f, ![peer] = g]
        /\ fd_to_channel_status' = [fd_to_channel_status EXCEPT
              ![f] = [self_fd |-> client, disconnected |-> FALSE],
              ![g] = [self_fd |-> peer, disconnected |-> FALSE]]
        /\ unintercepted_fd' = unintercepted_fd
    BY <1>2 DEF add_fd_to_channel
  <2>. HIDE DEF client, peer
  <2>3. /\ fd_cell'[client] = f /\ fd_cell'[peer] = g
        /\ \A e \in End : e[1] # c => fd_cell'[e] = fd_cell[e]
    BY <1>1, <2>1, <2>2 DEF TypeOK
  <2>4. /\ \A h \in Fd : h # f /\ h # g => fd_to_channel_status'[h] = fd_to_channel_status[h]
        /\ fd_to_channel_status'[f].disconnected = FALSE
        /\ fd_to_channel_status'[g].disconnected = FALSE
    BY <1>1, <1>2, <1>3, <2>2 DEF TypeOK
  <2>. QED  BY <2>2, <2>3, <2>4 DEF client, peer
<1>7. \A h \in unintercepted_fd : h \in Fd /\ HasEntry(h) /\ h # f /\ h # g
  BY <1>1, <1>4 DEF RawKnown, TypeOK
<1>8. ASSUME NEW e \in End, e[1] # c
      PROVE  /\ fd_cell'[e] = fd_cell[e] /\ (Up(e)' <=> Up(e))
             /\ fd_cell'[Peer(e)] = fd_cell[Peer(e)]
  <2>1. fd_cell[e] # NoFd => fd_cell[e] \in Fd /\ HasEntry(fd_cell[e])
    BY <1>1 DEF TypeOK, Inv, DescriptorsConsistent
  <2>2. Peer(e) \in End /\ Peer(e)[1] # c
    BY <1>8, PeerFacts DEF Peer
  <2>. QED  BY <1>4, <1>6, <1>8, <2>1, <2>2 DEF Up, Disconnected
<1>9. ASSUME NEW e \in End, e[1] = c
      PROVE  New(e[1]) /\ Up(e)'
  <2>1. e = <<c, "client">> \/ e = <<c, "peer">>
    BY <1>9 DEF End, Side
  <2>. QED  BY <1>3, <1>5, <1>6, <1>9, <2>1, Sentinels DEF Up, Disconnected
<1>. QED  BY <1>1, <1>5, <1>6, <1>7, <1>8, <1>9

LEMMA AcceptQuiet ==
  ASSUME Inv, FlowInv, TypeOK', Accept
  PROVE  Quiet
<1>. USE DEF kernel, tables, buffers
<1>0. PICK c \in Conn : AcceptConnect(c) \/ AcceptRefused(c) \/ AcceptLeaks(c) \/ AcceptDies(c)
  BY DEF Accept
<1>1. /\ TypeOK /\ UNCHANGED <<sent, read, out, network>>
      /\ \A e \in End : Len(sent[e]) \in Nat
  BY <1>0 DEF AcceptConnect, AcceptRefused, AcceptLeaks, AcceptDies, Accepting, Inv, TypeOK
<1>2. CASE AcceptRefused(c) \/ AcceptLeaks(c)
  <2>1. UNCHANGED <<fd_cell, fd_to_channel_status, unintercepted_fd>>
    BY <1>2 DEF AcceptRefused, AcceptLeaks
  <2>2. \A d \in Conn : New(d)' => New(d)
    BY <1>1, <1>2, TakenNew DEF AcceptRefused, AcceptLeaks
  <2>. QED  BY <1>1, <2>1, <2>2, QuietSame
<1>3. CASE AcceptDies(c)
  <2>1. UNCHANGED <<fd_cell, fd_to_channel_status, unintercepted_fd, asked, backlog>>
    BY <1>3 DEF AcceptDies, Accepting
  <2>2. \A d \in Conn : New(d)' => New(d)
    BY <2>1 DEF New, Waits
  <2>. QED  BY <1>1, <2>1, <2>2, QuietSame
<1>4. CASE AcceptConnect(c)
  <2>1. /\ New(c) /\ \A d \in Conn : New(d)' => New(d)
        /\ unintercepted_fd' = unintercepted_fd
        /\ \A h \in unintercepted_fd :
             HasEntry(h) /\ fd_to_channel_status'[h] = fd_to_channel_status[h]
        /\ \A e \in End : e[1] # c =>
             /\ fd_cell'[e] = fd_cell[e] /\ (Up(e)' <=> Up(e))
             /\ fd_cell'[Peer(e)] = fd_cell[Peer(e)]
        /\ \A e \in End : e[1] = c => Up(e)'
    BY <1>4, AcceptOpens DEF FlowInv
  <2>2. ASSUME NEW e \in End PROVE QuietFor(e)
    <3>1. /\ Len(sent'[e]) = Len(sent[e]) /\ Len(sent[e]) \in Nat /\ read'[e] = read[e]
          /\ read[e] <= Len(sent[e]) /\ read[e] \in Nat /\ e[1] \in Conn
      BY <1>1 DEF TypeOK, FlowInv, ReadBounds, End
    <3>2. /\ NumbersFor(Buffered(e), e)' = NumbersFor(Buffered(e), e)
          /\ InOrderFor(Buffered(e), e)' <=> InOrderFor(Buffered(e), e)
      BY <1>1 DEF NumbersFor, InOrderFor, Buffered
    <3>3. Up(e)' => Up(e) \/ New(e[1])
      BY <2>1
    <3>4. Up(e) => e[1] # c
      BY <2>1 DEF Up, New, Inv, ConnectedOnce
    <3>5. Up(e) /\ fd_cell[Peer(e)] \in unintercepted_fd
            => fd_cell'[Peer(e)] \in unintercepted_fd'
      BY <2>1, <3>4
    <3>6. is_direct /\ fd_cell'[e] # NoFd => Up(e)' /\ (fd_cell[e] # NoFd \/ New(e[1]))
      BY <2>1 DEF FlowInv, DirectForwarded
    <3>. QED  BY <1>1, <2>1, <3>1, <3>2, <3>3, <3>5, <3>6 DEF QuietFor
  <2>3. \A h \in unintercepted_fd' :
           h \in unintercepted_fd /\ HasEntry(h)' /\ EndOf(h)' = EndOf(h)
    BY <2>1 DEF HasEntry, EndOf
  <2>. QED  BY <1>1, <2>2, <2>3 DEF Quiet
<1>. QED  BY <1>0, <1>2, <1>3, <1>4

\* Closing or marking the connections whose entries are F; what is read meanwhile
\* is read at F, and what leaves the buffers was for them.
LEMMA QuietTables ==
  ASSUME Inv, FlowInv, TypeOK', NEW F \in SUBSET Fd, ClosedUnderPeer(F),
         Close(F) \/ (Tag(F) /\ ~is_direct),
         UNCHANGED <<asked, backlog, sent, out>>,
         \A e \in End : \/ read'[e] = read[e]
                        \/ /\ fd_cell[e] \in F
                           /\ read'[e] = read[e] + 1 /\ read'[e] <= Len(sent[e]),
         \A e \in End : Up(e) /\ fd_cell[e] \notin F =>
            /\ NumbersFor(Buffered(e), e)' = NumbersFor(Buffered(e), e)
            /\ InOrderFor(Buffered(e), e) => InOrderFor(Buffered(e), e)',
         \A ch \in Channel : \A i \in DOMAIN network'[ch] :
            \E j \in DOMAIN network[ch] : network'[ch][i] = network[ch][j]
  PROVE  Quiet
<1>1. TypeOK /\ TablesInv /\ RawKnown /\ \A f \in F : HasEntry(f)
  BY DEF Inv, TablesInv, FlowInv, ClosedUnderPeer
<1>2. ASSUME NEW e \in End
      PROVE  /\ Up(e)' => /\ Up(e) /\ fd_cell[e] \in Fd /\ fd_cell[e] \notin F
                          /\ fd_cell'[Peer(e)] = fd_cell[Peer(e)]
                          /\ fd_cell[Peer(e)] \notin F
             /\ is_direct /\ fd_cell'[e] # NoFd => Up(e)' /\ fd_cell[e] # NoFd
  <2>1. CASE Close(F)
    <3>1. Up(e)' => fd_cell'[e] # NoFd
      BY DEF Up
    <3>2. is_direct /\ fd_cell[e] # NoFd => Up(e)
      BY DEF FlowInv, DirectForwarded
    <3>. QED  BY <1>1, <2>1, <3>1, <3>2, CloseUp
  <2>2. CASE Tag(F) /\ ~is_direct
    BY <1>1, <2>2, TagUp DEF Tag
  <2>. QED  BY <2>1, <2>2
<1>3. ASSUME NEW f \in unintercepted_fd'
      PROVE  f \in unintercepted_fd /\ HasEntry(f)' /\ EndOf(f)' = EndOf(f)
  BY <1>1, <1>3, CloseRaw, TagRaw
<1>4. \A e \in End : fd_cell[Peer(e)] \in unintercepted_fd /\ fd_cell[Peer(e)] \notin F
                       => fd_cell[Peer(e)] \in unintercepted_fd'
  BY DEF Close, EraseUnintercepted, Tag
<1>5. ASSUME NEW e \in End PROVE QuietFor(e)
  <2>1. /\ read[e] \in Nat /\ read'[e] \in Nat /\ Len(sent[e]) \in Nat
        /\ read[e] <= Len(sent[e]) /\ read[e] <= read'[e] /\ read'[e] <= Len(sent[e])
    BY <1>1 DEF TypeOK, FlowInv, ReadBounds
  <2>2. (New(e[1])' <=> New(e[1])) /\ (New(e[1]) => fd_cell[e] = NoFd)
    BY DEF New, Waits, Inv, ConnectedOnce
  <2>3. New(e[1])' => read'[e] = read[e]
    BY <2>2, Sentinels
  <2>4. Up(e)' => read'[Peer(e)] = read[Peer(e)]
    BY <1>2, PeerFacts
  <2>. QED  BY <1>2, <1>4, <2>1, <2>2, <2>3, <2>4 DEF QuietFor
<1>. QED  BY <1>3, <1>5 DEF Quiet

\* An end's descriptor and that of the other end, as close_connection finds them.
LEMMA PairHasPeer ==
  ASSUME TypeOK, TablesInv, NEW e \in End, fd_cell[e] # NoFd
  PROVE  /\ fd_cell[e] \in Fd /\ HasEntry(fd_cell[e]) /\ EndOf(fd_cell[e]) = e
         /\ fd_cell[Peer(e)] \in Fd /\ HasEntry(fd_cell[Peer(e)])
         /\ EndOf(fd_cell[Peer(e)]) = Peer(e)
         /\ Disconnected(fd_cell[Peer(e)]) = Disconnected(fd_cell[e])
         /\ Pair(fd_cell[e]) = {fd_cell[e], fd_cell[Peer(e)]}
<1>1. fd_cell[e] \in Fd /\ HasEntry(fd_cell[e]) /\ EndOf(fd_cell[e]) = e
  BY DEF TypeOK, TablesInv, DescriptorsConsistent
<1>2. PICK h \in Fd : /\ HasEntry(h) /\ EndOf(h) = Peer(e)
                      /\ Disconnected(h) = Disconnected(fd_cell[e])
  BY <1>1 DEF TablesInv, BothEndsTogether
<1>3. fd_cell[Peer(e)] = h
  BY <1>2 DEF TablesInv, DescriptorsConsistent
<1>. QED  BY <1>1, <1>2, <1>3 DEF Pair

LEMMA MessagesSub ==
  ASSUME network' = network
  PROVE  /\ \A ch \in Channel : \A i \in DOMAIN network'[ch] :
              \E j \in DOMAIN network[ch] : network'[ch][i] = network[ch][j]
         /\ \A e \in End : /\ NumbersFor(Buffered(e), e)' = NumbersFor(Buffered(e), e)
                           /\ InOrderFor(Buffered(e), e) => InOrderFor(Buffered(e), e)'
BY DEF NumbersFor, InOrderFor, Buffered

\* Reading at f what ends its connection, or cannot be passed on.
LEMMA ReadAndClose ==
  ASSUME Inv, FlowInv, TypeOK', NEW f \in Fd, NEW kinds, Readable(f, kinds), Consume(f),
         NEW g \in Fd, g \in Pair(f), HasEntry(g), Close(Pair(g)),
         UNCHANGED <<asked, backlog, sent, out, network>>
  PROVE  Quiet
<1>. DEFINE e == EndOf(f)
<1>1. TypeOK /\ TablesInv /\ HasEntry(f) /\ e \in End /\ fd_cell[e] = f /\ f # NoFd
  BY EntryType, Sentinels DEF Inv, TablesInv, Readable, DescriptorsConsistent
<1>2. Pair(f) = {f, fd_cell[Peer(e)]} /\ EndOf(fd_cell[Peer(e)]) = Peer(e)
      /\ fd_cell[Peer(e)] # NoFd
  BY <1>1, PairHasPeer, Sentinels
<1>3. f \in Pair(g)
  BY <1>1, <1>2, PairHasPeer, PeerFacts
<1>4. Pair(g) \in SUBSET Fd /\ ClosedUnderPeer(Pair(g))
  BY <1>1, PairType, PairClosed DEF TablesInv
<1>5. \A x \in End : \/ read'[x] = read[x]
                     \/ /\ fd_cell[x] \in Pair(g)
                        /\ read'[x] = read[x] + 1 /\ read'[x] <= Len(sent[x])
  BY <1>1, <1>3 DEF Consume, Readable, Next_n, TypeOK
<1>. QED  BY <1>4, <1>5, MessagesSub, QuietTables

\* A message leaves its buffer.
LEMMA DequeueOthers ==
  ASSUME TypeOK, FlowInv, Dequeue
  PROVE  /\ \A ch \in Channel : \A i \in DOMAIN network'[ch] :
              \E j \in DOMAIN network[ch] : network'[ch][i] = network[ch][j]
         /\ \A e \in End : Up(e) /\ HeadMsg.fd # e =>
              /\ NumbersFor(Buffered(e), e)' = NumbersFor(Buffered(e), e)
              /\ InOrderFor(Buffered(e), e)'
<1>. DEFINE s == network[waiting]
<1>1. /\ waiting \in Channel /\ s \in Seq(Msg) /\ s # <<>>
      /\ \A ch \in Channel : network'[ch] = IF ch = waiting THEN Tail(s) ELSE network[ch]
  BY DEF Dequeue, TypeOK
<1>2. \A i \in DOMAIN Tail(s) : i + 1 \in DOMAIN s /\ Tail(s)[i] = s[i + 1]
  BY <1>1, HeadTailProperties
<1>3. \A ch \in Channel : \A i \in DOMAIN network'[ch] :
        \E j \in DOMAIN network[ch] : network'[ch][i] = network[ch][j]
  BY <1>1, <1>2
<1>. HIDE DEF s
<1>4. ASSUME NEW e \in End, Up(e), HeadMsg.fd # e
      PROVE  /\ NumbersFor(Buffered(e), e)' = NumbersFor(Buffered(e), e)
             /\ InOrderFor(Buffered(e), e)'
  <2>1. Chan(Peer(e)) \in Channel /\ Head(s).fd # e
    BY <1>4, PeerFacts, ChanType DEF s, HeadMsg
  <2>2. InOrderFor(Buffered(e), e)
    BY <1>4 DEF FlowInv, FramesFollow, InFlight
  <2>3. CASE Chan(Peer(e)) # waiting
    <3>1. network'[Chan(Peer(e))] = network[Chan(Peer(e))]
      BY <1>1, <2>1, <2>3
    <3>. QED  BY <2>2, <3>1 DEF Buffered, NumbersFor, InOrderFor
  <2>4. CASE Chan(Peer(e)) = waiting
    <3>1. Buffered(e) = s /\ Buffered(e)' = Tail(s)
      BY <1>1, <2>4 DEF s, Buffered
    <3>2. NumbersFor(Tail(s), e) = NumbersFor(s, e) /\ InOrderFor(Tail(s), e)
      BY <1>1, <2>1, <2>2, <3>1, TailFor
    <3>3. NumbersFor(Buffered(e), e)' = NumbersFor(Tail(s), e)
      BY <3>1 DEF NumbersFor
    <3>4. InOrderFor(Buffered(e), e)' <=> InOrderFor(Tail(s), e)
      BY <3>1 DEF InOrderFor
    <3>. QED  BY <3>1, <3>2, <3>3, <3>4
  <2>. QED  BY <2>3, <2>4
<1>. QED  BY <1>3, <1>4

\* It leaves without being received: its connection has been closed, is marked
\* disconnected, or is closed or marked now.
LEMMA DequeueQuiet ==
  ASSUME Inv, FlowInv, TypeOK', Dequeue, UNCHANGED <<asked, backlog, sent, read, out>>,
         NEW F \in SUBSET Fd, ClosedUnderPeer(F), Close(F) \/ (Tag(F) /\ ~is_direct),
         Up(HeadMsg.fd) => fd_cell[HeadMsg.fd] \in F
  PROVE  Quiet
<1>1. TypeOK
  BY DEF Inv
<1>. QED  BY <1>1, DequeueOthers, QuietTables

\* Marking nothing is doing nothing.
LEMMA TagNothing ==
  ASSUME TypeOK, UNCHANGED tables
  PROVE  Tag({}) /\ ClosedUnderPeer({})
BY DEF TypeOK, tables, Tag, ClosedUnderPeer

\* recover empties the buffers of a node's connections and closes all of them.
LEMMA RecoverQuiet ==
  ASSUME Inv, FlowInv, TypeOK', NEW node \in Node, recover(node)
  PROVE  Quiet
<1>. USE DEF kernel, tables, buffers
<1>. DEFINE F == PairsOf(node)
            cleared == {Chan(EndOf(f)) : f \in EntriesOf(node)}
<1>1. TypeOK /\ TablesInv /\ F \in SUBSET Fd /\ ClosedUnderPeer(F)
  BY PairsOfClosed DEF Inv, TablesInv
<1>2. /\ Close(F) /\ UNCHANGED <<asked, backlog, sent, read, out>>
      /\ \A ch \in Channel : network'[ch] = IF ch \in cleared THEN <<>> ELSE network[ch]
  BY DEF recover
<1>. HIDE DEF F
<1>3. ASSUME NEW e \in End, Up(e), fd_cell[e] \notin F
      PROVE  Chan(Peer(e)) \notin cleared
  <2>1. SUFFICES ASSUME Chan(Peer(e)) \in cleared PROVE FALSE
    OBVIOUS
  <2>2. /\ fd_cell[Peer(e)] \in Fd /\ HasEntry(fd_cell[Peer(e)])
        /\ EndOf(fd_cell[Peer(e)]) = Peer(e)
        /\ Peer(Peer(e)) = e /\ Peer(e) \in End /\ fd_cell[Peer(e)] # NoFd
    BY <1>1, <1>3, PairHasPeer, PeerFacts, Sentinels DEF Up
  <2>3. Chan(Peer(e))[1] = node
    BY <2>1 DEF EntriesOf
  <2>4. fd_cell[Peer(e)] \in EntriesOf(node)
    BY <2>2, <2>3 DEF EntriesOf
  <2>5. fd_cell[e] \in Pair(fd_cell[Peer(e)])
    BY <1>1, <2>2, PairHasPeer
  <2>6. fd_cell[e] \in F
    BY <2>4, <2>5 DEF F, PairsOf
  <2>. QED  BY <1>3, <2>6
<1>4. ASSUME NEW e \in End, Up(e), fd_cell[e] \notin F
      PROVE  /\ NumbersFor(Buffered(e), e)' = NumbersFor(Buffered(e), e)
             /\ InOrderFor(Buffered(e), e) => InOrderFor(Buffered(e), e)'
  <2>1. network'[Chan(Peer(e))] = network[Chan(Peer(e))]
    BY <1>2, <1>3, <1>4, PeerFacts, ChanType
  <2>. QED  BY <2>1 DEF Buffered, NumbersFor, InOrderFor
<1>5. \A ch \in Channel : \A i \in DOMAIN network'[ch] :
        \E j \in DOMAIN network[ch] : network'[ch][i] = network[ch][j]
  BY <1>2
<1>. QED  BY <1>1, <1>2, <1>4, <1>5, QuietTables

-----------------------------------------------------------------------------
(* The steps by which something arrives or is buffered.                      *)

Arrival(e, item) ==
  /\ item \in Item /\ item.from = Peer(e) /\ item.n \in 1 .. read'[Peer(e)]
  /\ out' = [out EXCEPT ![e] = Append(@, item)]
  /\ UNCHANGED <<asked, backlog, sent, fd_cell, fd_to_channel_status>>

\* What an item that arrives leaves of the received sequences.
LEMMA ArrivalOut ==
  ASSUME TypeOK, NEW e \in End, NEW item, Arrival(e, item)
  PROVE  /\ \A x \in End : x # e => out'[x] = out[x]
         /\ Len(out[e]) \in Nat /\ DOMAIN out[e] = 1 .. Len(out[e])
         /\ Len(out'[e]) = Len(out[e]) + 1 /\ DOMAIN out'[e] = 1 .. (Len(out[e]) + 1)
         /\ \A i \in 1 .. Len(out[e]) : out'[e][i] = out[e][i]
         /\ out'[e][Len(out[e]) + 1] = item
         /\ FrameCount(out[e]) \in Nat
         /\ FrameCount(out'[e]) = FrameCount(out[e]) + (IF item.raw THEN 0 ELSE 1)
<1>1. item \in Item /\ out[e] \in Seq(Item)
  BY DEF Arrival, TypeOK
<1>2. out'[e] = Append(out[e], item) /\ \A x \in End : x # e => out'[x] = out[x]
  <2>1. out' = [out EXCEPT ![e] = Append(out[e], item)]
    BY DEF Arrival
  <2>. DEFINE S == Seq(Item)
  <2>2. out \in [End -> S]
    BY DEF TypeOK
  <2>. HIDE DEF S
  <2>. QED  BY <2>1, <2>2
<1>3. /\ Len(out[e]) \in Nat /\ DOMAIN out[e] = 1 .. Len(out[e])
      /\ Len(out'[e]) = Len(out[e]) + 1 /\ DOMAIN out'[e] = 1 .. (Len(out[e]) + 1)
      /\ \A i \in 1 .. Len(out[e]) : out'[e][i] = out[e][i]
      /\ out'[e][Len(out[e]) + 1] = item
  <2>1. Len(out[e]) \in Nat /\ DOMAIN out[e] = 1 .. Len(out[e])
    BY <1>1, LenProperties
  <2>2. /\ Len(out'[e]) = Len(out[e]) + 1 /\ DOMAIN out'[e] = 1 .. Len(out'[e])
        /\ \A i \in 1 .. Len(out[e]) : out'[e][i] = out[e][i]
        /\ out'[e][Len(out[e]) + 1] = item
    BY <1>1, <1>2, AppendProperties
  <2>. QED  BY <2>1, <2>2
<1>4. /\ FrameCount(out[e]) \in Nat
      /\ FrameCount(out'[e]) = FrameCount(out[e]) + (IF item.raw THEN 0 ELSE 1)
  BY <1>1, <1>2, FrameCounts
<1>. QED  BY <1>2, <1>3, <1>4

LEMMA ArrivalItems ==
  ASSUME TypeOK, NEW e \in End, NEW item, Arrival(e, item), NEW i \in DOMAIN out'[e]
  PROVE  \/ i = Len(out[e]) + 1 /\ out'[e][i] = item
         \/ i \in DOMAIN out[e] /\ out'[e][i] = out[e][i]
<1>1. i \in 1 .. (Len(out[e]) + 1) /\ Len(out[e]) \in Nat
  BY ArrivalOut
<1>2. i = Len(out[e]) + 1 \/ i \in 1 .. Len(out[e])
  BY <1>1
<1>. QED  BY <1>2, ArrivalOut

LEMMA ArrivalFlow ==
  ASSUME Inv, FlowInv, TypeOK', NEW e \in End, NEW item, Arrival(e, item), fd_cell[e] # NoFd,
         \A x \in End : \/ read'[x] = read[x]
                        \/ /\ x = Peer(e) /\ read'[x] = read[x] + 1
                           /\ read'[x] <= Len(sent[x]),
         item.raw => \E j \in 1 .. item.n : sent[Peer(e)][j] = "raw",
         unintercepted_fd \subseteq unintercepted_fd',
         \A f \in unintercepted_fd' : f \in unintercepted_fd \/ (item.raw /\ f = fd_cell[Peer(e)]),
         \A ch \in Channel : \A i \in DOMAIN network'[ch] :
            \E j \in DOMAIN network[ch] : network'[ch][i] = network[ch][j],
         \A x \in End : Up(x) /\ x # e =>
            /\ NumbersFor(Buffered(x), x)' = NumbersFor(Buffered(x), x)
            /\ InOrderFor(Buffered(x), x)',
         Up(e) => InFlight(e)',
         is_direct => item.n = Len(out[e]) + 1 /\ read'[Peer(e)] = item.n
  PROVE  FlowInv'
<1>. DEFINE w == Peer(e)
            k == Len(out[e]) + 1
<1>0. TypeOK /\ TablesInv /\ w \in End /\ Peer(w) = e /\ w[1] = e[1]
      /\ UNCHANGED <<asked, backlog, sent, fd_cell, fd_to_channel_status>>
  BY PeerFacts DEF Inv, TablesInv, Arrival, Peer
<1>1. /\ \A x \in End : x # e => out'[x] = out[x]
      /\ Len(out[e]) \in Nat /\ DOMAIN out[e] = 1 .. Len(out[e])
      /\ Len(out'[e]) = k /\ DOMAIN out'[e] = 1 .. k
      /\ \A i \in 1 .. Len(out[e]) : out'[e][i] = out[e][i]
      /\ out'[e][k] = item /\ item.from = w
  <2>1. item.from = w
    BY DEF Arrival
  <2>. QED  BY <1>0, <2>1, ArrivalOut
<1>2. \A i \in DOMAIN out'[e] : i = k \/ (i \in DOMAIN out[e] /\ out'[e][i] = out[e][i])
  BY <1>0, ArrivalItems
<1>3. \A x \in End : /\ read[x] \in Nat /\ read'[x] \in Nat /\ Len(sent[x]) \in Nat
                     /\ read[x] <= read'[x] /\ read'[x] <= Len(sent[x])
  <2>1. \A x \in End : /\ read[x] \in Nat /\ read'[x] \in Nat /\ Len(sent[x]) \in Nat
                       /\ read[x] <= Len(sent[x])
    BY <1>0 DEF TypeOK, FlowInv, ReadBounds
  <2>. QED  BY <2>1
<1>4. item.n \in 1 .. read'[w] /\ item.n \in Nat
  BY <1>0, <1>3 DEF Arrival
<1>5. ReadBounds'
  <2>1. ASSUME NEW x \in End, NEW i \in DOMAIN out'[x] PROVE out'[x][i].n \in 1 .. read'[Peer(x)]
    <3>1. CASE x = e /\ i = k
      BY <1>1, <1>4, <3>1
    <3>2. CASE i \in DOMAIN out[x] /\ out'[x][i] = out[x][i]
      <4>1. out[x][i].n \in 1 .. read[Peer(x)] /\ Peer(x) \in End
        BY <3>2, PeerFacts DEF FlowInv, ReadBounds
      <4>. QED  BY <1>3, <3>2, <4>1
    <3>. QED  BY <1>1, <1>2, <2>1, <3>1, <3>2
  <2>. QED  BY <1>0, <1>3, <2>1 DEF ReadBounds
<1>6. NewIsEmpty'
  <2>1. ~New(e[1]) /\ \A c : New(c)' <=> New(c)
    BY <1>0 DEF New, Waits, Inv, ConnectedOnce
  <2>2. ASSUME NEW x \in End, New(x[1]) PROVE out'[x] = <<>> /\ read'[x] = 0
    <3>1. x # e /\ x # w
      BY <1>0, <2>1, <2>2
    <3>. QED  BY <1>1, <2>2, <3>1 DEF FlowInv, NewIsEmpty
  <2>3. ASSUME NEW ch \in Channel, NEW i \in DOMAIN network'[ch],
               NEW c, c = network'[ch][i].fd[1]
        PROVE  ~New(c)
    BY <2>3 DEF FlowInv, NewIsEmpty
  <2>. QED  BY <2>1, <2>2, <2>3 DEF NewIsEmpty
<1>7. OwnChannel'
  BY DEF FlowInv, OwnChannel
<1>8. RawKnown'
  <2>1. ASSUME NEW f \in unintercepted_fd'
        PROVE  HasEntry(f) /\ \E j \in 1 .. read'[EndOf(f)] : sent[EndOf(f)][j] = "raw"
    <3>1. CASE f \in unintercepted_fd
      <4>1. HasEntry(f) /\ EndOf(f) \in End
        BY <1>0, <3>1, EntryType DEF FlowInv, RawKnown, TypeOK
      <4>2. PICK j \in 1 .. read[EndOf(f)] : sent[EndOf(f)][j] = "raw"
        BY <3>1 DEF FlowInv, RawKnown
      <4>3. j \in 1 .. read'[EndOf(f)]
        BY <1>3, <4>1, <4>2
      <4>. QED  BY <4>1, <4>2, <4>3
    <3>2. CASE item.raw /\ f = fd_cell[w]
      <4>1. HasEntry(f) /\ EndOf(f) = w
        BY <1>0, <3>2, PairHasPeer
      <4>2. PICK j \in 1 .. item.n : sent[w][j] = "raw"
        BY <3>2
      <4>3. j \in 1 .. read'[w]
        BY <1>0, <1>3, <1>4, <4>2
      <4>. QED  BY <4>1, <4>2, <4>3
    <3>. QED  BY <2>1, <3>1, <3>2
  <2>. QED  BY <1>0, <2>1 DEF RawKnown, HasEntry, EndOf
<1>9. FramesFollow'
  <2>1. ASSUME NEW x \in End, Up(x), x # e PROVE InFlight(x)'
    <3>1. Peer(x) # w /\ Peer(x) \in End
      BY <1>0, <2>1, PeerFacts
    <3>2. /\ read'[Peer(x)] = read[Peer(x)] /\ out'[x] = out[x]
          /\ NumbersFor(Buffered(x), x)' = NumbersFor(Buffered(x), x)
          /\ InOrderFor(Buffered(x), x)'
          /\ fd_cell'[Peer(x)] \notin unintercepted_fd'
               => fd_cell[Peer(x)] \notin unintercepted_fd
      BY <1>0, <1>1, <2>1, <3>1
    <3>3. InFlight(x)
      BY <2>1 DEF FlowInv, FramesFollow
    <3>. QED  BY <3>2, <3>3 DEF InFlight, FrameCount, FrameAt
  <2>2. \A x \in End : Up(x)' <=> Up(x)
    BY <1>0 DEF Up, Disconnected
  <2>. QED  BY <2>1, <2>2 DEF FramesFollow
<1>10. DirectForwarded'
  <2>1. SUFFICES ASSUME is_direct PROVE DirectForwarded'
    BY DEF DirectForwarded
  <2>2. DirectKeepsOrder'
    <3>1. \A x \in End : \A i \in DOMAIN out[x] : out[x][i].n = i
      BY <2>1 DEF FlowInv, DirectForwarded, DirectKeepsOrder
    <3>2. item.n = k
      BY <2>1
    <3>3. \A i \in DOMAIN out'[e] : out'[e][i].n = i
      BY <1>1, <1>2, <3>1, <3>2
    <3>. QED  BY <1>1, <3>1, <3>3 DEF DirectKeepsOrder
  <2>3. ASSUME NEW x \in End, fd_cell[x] # NoFd
        PROVE  Up(x) /\ Len(out'[x]) = read'[Peer(x)]
    <3>1. Up(x) /\ Len(out[x]) = read[Peer(x)]
      BY <2>1, <2>3 DEF FlowInv, DirectForwarded
    <3>2. CASE x = e
      BY <1>1, <2>1, <3>1, <3>2
    <3>3. CASE x # e
      <4>1. Peer(x) # w /\ Peer(x) \in End
        BY <1>0, <3>3, PeerFacts
      <4>. QED  BY <1>1, <3>1, <3>3, <4>1
    <3>. QED  BY <3>2, <3>3
  <2>4. \A ch \in Channel : DOMAIN network'[ch] = {}
    BY <2>1 DEF FlowInv, DirectForwarded
  <2>. QED  BY <1>0, <2>1, <2>2, <2>3, <2>4 DEF DirectForwarded, Up, Disconnected
<1>11. RawOnlyAfterBadFrame'
  <2>1. ASSUME NEW x \in End, NEW i \in DOMAIN out'[x], out'[x][i].raw
        PROVE  \E j \in 1 .. out'[x][i].n : sent[out'[x][i].from][j] = "raw"
    <3>1. CASE x = e /\ i = k
      BY <1>1, <2>1, <3>1
    <3>2. CASE i \in DOMAIN out[x] /\ out'[x][i] = out[x][i]
      BY <2>1, <3>2 DEF FlowInv, RawOnlyAfterBadFrame
    <3>. QED  BY <1>1, <1>2, <2>1, <3>1, <3>2
  <2>. QED  BY <1>0, <2>1 DEF RawOnlyAfterBadFrame
<1>. QED  BY <1>5, <1>6, <1>7, <1>8, <1>9, <1>10, <1>11 DEF FlowInv

\* The next frame for e, as Link!Receive has it, and something unframed.
FrameArrives(e, n) ==
  /\ Up(e) /\ n = FrameCount(out[e]) + 1
  /\ \A i \in DOMAIN out[e] : out[e][i].raw => n < out[e][i].n
  /\ n <= Len(sent[Peer(e)])
  /\ Arrival(e, [from |-> Peer(e), n |-> n, raw |-> FALSE, whole |-> TRUE])

RawArrives(e, n) ==
  /\ ~New(e[1]) /\ \A i \in DOMAIN out[e] : out[e][i].n < n
  /\ n <= Len(sent[Peer(e)])
  /\ \E whole \in BOOLEAN :
       Arrival(e, [from |-> Peer(e), n |-> n, raw |-> TRUE, whole |-> whole])

Arrives(e, n) == n \in Nat /\ (FrameArrives(e, n) \/ RawArrives(e, n))

\* A write at the descriptor of e is received by e.
LEMMA WriteArrives ==
  ASSUME TablesInv, NEW e \in End, fd_cell[e] \in Fd, NEW item, WriteItem(fd_cell[e], item)
  PROVE  out' = [out EXCEPT ![e] = Append(@, item)]
<1>1. sock[fd_cell[e]] = e
  BY Sentinels DEF TablesInv, DescriptorsConsistent
<1>. QED  BY <1>1 DEF WriteItem

\* A frame that has been read is written at once: DIRECT.
LEMMA DirectDelivers ==
  ASSUME Inv, FlowInv, TypeOK', NEW f \in Fd, ReceiveFrame(f), is_direct,
         DeliverBody(NewMsg(f)), UNCHANGED buffers
  PROVE  FlowInv' /\ \E e \in End : \E n \in Nat : Arrives(e, n)
<1>a. PICK w \in End, e \in End, n \in Nat :
        w = EndOf(f) /\ e = Peer(w) /\ n = read[w] + 1
  <2>1. EndOf(f) \in End
    BY EntryType DEF Inv, ReceiveFrame, Readable
  <2>2. read[EndOf(f)] + 1 \in Nat
    BY <2>1 DEF Inv, TypeOK
  <2>. QED  BY <2>1, <2>2, PeerFacts
<1>p. Peer(e) = w
  BY <1>a, PeerFacts
<1>1. /\ TypeOK /\ TablesInv /\ HasEntry(f) /\ w \in End /\ fd_cell[w] = f
      /\ fd_cell[w] # NoFd
  BY <1>a, PeerFacts, Sentinels
     DEF Inv, TablesInv, ReceiveFrame, Readable, DescriptorsConsistent
<1>2. /\ f \notin unintercepted_fd /\ read' = [read EXCEPT ![w] = n]
      /\ n <= Len(sent[w])
      /\ UNCHANGED <<asked, backlog, sent, fd_cell, fd_to_channel_status,
                     unintercepted_fd, network>>
  BY <1>a DEF ReceiveFrame, Readable, Consume, Next_n, DeliverBody, kernel, tables, buffers
<1>3. /\ NewMsg(f).fd = e /\ NewMsg(f).from = w /\ NewMsg(f).n = n
  BY <1>a DEF NewMsg, Next_n
<1>4. /\ fd_cell[e] \in Fd /\ ~Disconnected(fd_cell[e])
      /\ WriteItem(fd_cell[e], [from |-> w, n |-> n, raw |-> FALSE, whole |-> TRUE])
  BY <1>3 DEF DeliverBody, Deliverable
<1>5. Up(e) /\ fd_cell[e] # NoFd
  BY <1>4, Sentinels DEF Up
<1>6. read[w] \in Nat /\ n = read[w] + 1 /\ read'[w] = n
  BY <1>a, <1>1, <1>2 DEF TypeOK
<1>b. \A x \in End : x # w => read'[x] = read[x]
  BY <1>p, <1>1, <1>2 DEF TypeOK
<1>i. PICK item \in Item : /\ item = [from |-> w, n |-> n, raw |-> FALSE, whole |-> TRUE]
                           /\ item.from = w /\ item.n = n /\ ~item.raw
  <2>. DEFINE r == [from |-> w, n |-> n, raw |-> FALSE, whole |-> TRUE]
  <2>1. r \in Item
    BY DEF Item
  <2>2. r.from = w /\ r.n = n /\ ~r.raw
    OBVIOUS
  <2>. HIDE DEF r
  <2>. QED  BY <2>1, <2>2 DEF r
<1>7. Arrival(e, item)
  <2>1. out' = [out EXCEPT ![e] = Append(@, item)]
    BY <1>1, <1>4, <1>i, WriteArrives
  <2>2. item.from = w /\ item.n \in 1 .. read'[w]
    BY <1>i, <1>6
  <2>. QED  BY <1>p, <1>2, <2>1, <2>2 DEF Arrival
<1>8. Len(out[e]) = read[w]
  BY <1>p, <1>1, <1>5 DEF FlowInv, DirectForwarded
<1>9. /\ FrameCount(out[e]) = read[w] /\ \A i \in DOMAIN out[e] : ~out[e][i].raw
      /\ NumbersFor(Buffered(e), e) = {}
  <2>1. PICK last \in 0 .. read[w] :
          /\ last = read[w]
          /\ \A i \in DOMAIN out[e] : out[e][i].raw => last < out[e][i].n
          /\ FrameCount(out[e]) <= last
          /\ NumbersFor(Buffered(e), e) = (FrameCount(out[e]) + 1) .. last
    BY <1>p, <1>1, <1>2, <1>5 DEF FlowInv, FramesFollow, InFlight
  <2>2. FrameCount(out[e]) \in Nat
    BY <1>p, <1>1, <1>6, <1>7, ArrivalOut
  <2>3. \A i \in DOMAIN out[e] : out[e][i].n \in 1 .. read[w]
    BY <1>p, <1>1 DEF FlowInv, ReadBounds
  <2>4. NumbersFor(Buffered(e), e) = {}
    BY <1>p, <1>1, ChanType DEF FlowInv, DirectForwarded, Buffered, NumbersFor
  <2>5. FrameCount(out[e]) = read[w]
    <3>1. last \notin (FrameCount(out[e]) + 1) .. last
      BY <2>1, <2>4
    <3>. QED  BY <1>6, <2>1, <2>2, <3>1
  <2>. QED  BY <1>6, <2>1, <2>3, <2>4, <2>5
<1>10. FrameArrives(e, n)
  <2>1. n = FrameCount(out[e]) + 1 /\ n <= Len(sent[Peer(e)])
    BY <1>p, <1>2, <1>6, <1>9
  <2>2. Arrival(e, [from |-> Peer(e), n |-> n, raw |-> FALSE, whole |-> TRUE])
    BY <1>p, <1>i, <1>7
  <2>. QED  BY <1>5, <1>9, <2>1, <2>2 DEF FrameArrives
<1>11. InFlight(e)'
  <2>1. FrameCount(out'[e]) = n
    BY <1>p, <1>1, <1>6, <1>7, <1>9, <1>i, ArrivalOut
  <2>2. \A i \in DOMAIN out'[e] : ~out'[e][i].raw
    <3>1. \A i \in DOMAIN out'[e] : out'[e][i] = item \/ ~out'[e][i].raw
      BY <1>1, <1>7, <1>9, ArrivalItems
    <3>. QED  BY <1>i, <3>1
  <2>3. \A i \in DOMAIN Buffered(e) : Buffered(e)[i].fd # e
    BY <1>9 DEF NumbersFor
  <2>4. NumbersFor(Buffered(e), e)' = (n + 1) .. n /\ InOrderFor(Buffered(e), e)'
    BY <1>2, <1>6, <1>9, <2>3 DEF Buffered, NumbersFor, InOrderFor
  <2>5. n \in 0 .. read'[Peer(e)] /\ n = read'[Peer(e)]
    BY <1>p, <1>6
  <2>6. FrameCount(out[e])' = n /\ n <= n
    BY <1>6, <2>1 DEF FrameCount, FrameAt
  <2>7. NumbersFor(Buffered(e), e)' = (FrameCount(out[e])' + 1) .. n
    BY <2>4, <2>6
  <2>. QED  BY <2>2, <2>4, <2>5, <2>6, <2>7 DEF InFlight
<1>12. \A x \in End : Up(x) => /\ NumbersFor(Buffered(x), x)' = NumbersFor(Buffered(x), x)
                               /\ InOrderFor(Buffered(x), x)'
  BY <1>2 DEF FlowInv, FramesFollow, InFlight, Buffered, NumbersFor, InOrderFor
<1>13. FlowInv'
  BY <1>p, <1>1, <1>2, <1>5, <1>6, <1>7, <1>8, <1>11, <1>12, <1>b, <1>i, MessagesSub, ArrivalFlow
<1>. QED  BY <1>p, <1>1, <1>6, <1>10, <1>13 DEF Arrives

\* Bytes that are passed on unframed.
LEMMA PassOnArrives ==
  ASSUME Inv, FlowInv, TypeOK', NEW f \in Fd, ReceiveRaw(f),
         PassOn(f, fd_cell[Peer(EndOf(f))])
  PROVE  FlowInv' /\ \E e \in End : \E n \in Nat : Arrives(e, n)
<1>a. PICK w \in End, e \in End, n \in Nat :
        w = EndOf(f) /\ e = Peer(w) /\ n = read[w] + 1
  <2>1. EndOf(f) \in End
    BY EntryType DEF Inv, ReceiveRaw, Readable
  <2>2. read[EndOf(f)] + 1 \in Nat
    BY <2>1 DEF Inv, TypeOK
  <2>. QED  BY <2>1, <2>2, PeerFacts
<1>p. Peer(e) = w
  BY <1>a, PeerFacts
<1>1. /\ TypeOK /\ TablesInv /\ HasEntry(f) /\ w \in End /\ fd_cell[w] = f
  BY <1>a, PeerFacts DEF Inv, TablesInv, ReceiveRaw, Readable, DescriptorsConsistent
<1>2. /\ read' = [read EXCEPT ![w] = n] /\ n <= Len(sent[w])
      /\ UNCHANGED <<asked, backlog, sent, fd_cell, fd_to_channel_status, network>>
      /\ unintercepted_fd' = unintercepted_fd \cup {f}
      /\ f \in unintercepted_fd \/ sent[w][n] = "raw"
  BY <1>a DEF ReceiveRaw, Readable, Consume, Next_n, HeadKind, PassOn, kernel, tables, buffers
<1>3. PICK whole \in BOOLEAN :
        /\ fd_cell[e] \in Fd /\ fd_cell[e] # NoFd
        /\ WriteItem(fd_cell[e], [from |-> w, n |-> n, raw |-> TRUE, whole |-> whole])
  BY <1>a, Sentinels DEF PassOn, OnConnection, Next_n
<1>4. read[w] \in Nat /\ n = read[w] + 1 /\ read'[w] = n
  BY <1>a, <1>1, <1>2 DEF TypeOK
<1>b. \A x \in End : x # w => read'[x] = read[x]
  BY <1>p, <1>1, <1>2 DEF TypeOK
<1>5. \E j \in 1 .. n : sent[w][j] = "raw"
  <2>1. CASE f \in unintercepted_fd
    <3>1. PICK j \in 1 .. read[w] : sent[w][j] = "raw"
      BY <1>a, <2>1 DEF FlowInv, RawKnown
    <3>. QED  BY <1>p, <1>4, <3>1
  <2>2. CASE sent[w][n] = "raw"
    BY <1>p, <1>4, <2>2
  <2>. QED  BY <1>2, <2>1, <2>2
<1>i. PICK item \in Item : /\ item = [from |-> w, n |-> n, raw |-> TRUE, whole |-> whole]
                           /\ item.from = w /\ item.n = n /\ item.raw
  <2>. DEFINE r == [from |-> w, n |-> n, raw |-> TRUE, whole |-> whole]
  <2>1. r \in Item
    BY DEF Item
  <2>2. r.from = w /\ r.n = n /\ r.raw
    OBVIOUS
  <2>. HIDE DEF r
  <2>. QED  BY <2>1, <2>2 DEF r
<1>6. Arrival(e, item)
  <2>1. out' = [out EXCEPT ![e] = Append(@, item)]
    BY <1>1, <1>3, <1>i, WriteArrives
  <2>2. item.from = w /\ item.n \in 1 .. read'[w]
    BY <1>i, <1>4
  <2>. QED  BY <1>p, <1>2, <2>1, <2>2 DEF Arrival
<1>7. \A i \in DOMAIN out[e] : out[e][i].n \in 1 .. read[w]
  BY <1>p, <1>1 DEF FlowInv, ReadBounds
<1>8. RawArrives(e, n)
  <2>1. ~New(e[1])
    BY <1>p, <1>1, <1>3 DEF New, Inv, ConnectedOnce
  <2>2. \A i \in DOMAIN out[e] : out[e][i].n < n
    BY <1>4, <1>7
  <2>3. /\ Arrival(e, [from |-> Peer(e), n |-> n, raw |-> TRUE, whole |-> whole])
        /\ n <= Len(sent[Peer(e)])
    BY <1>p, <1>2, <1>i, <1>6
  <2>. QED  BY <2>1, <2>2, <2>3 DEF RawArrives
<1>9. ASSUME Up(e) PROVE InFlight(e)'
  <2>1. PICK last \in 0 .. read[w] :
          /\ \A i \in DOMAIN out[e] : out[e][i].raw => last < out[e][i].n
          /\ FrameCount(out[e]) <= last
          /\ NumbersFor(Buffered(e), e) = (FrameCount(out[e]) + 1) .. last
          /\ InOrderFor(Buffered(e), e)
    BY <1>p, <1>1, <1>9 DEF FlowInv, FramesFollow, InFlight
  <2>2. FrameCount(out'[e]) = FrameCount(out[e])
    BY <1>1, <1>6, <1>i, ArrivalOut
  <2>3. last \in 0 .. read'[w] /\ last < n
    BY <1>p, <1>4, <2>1
  <2>4. ASSUME NEW i \in DOMAIN out'[e], out'[e][i].raw PROVE last < out'[e][i].n
    <3>1. CASE out'[e][i] = item
      BY <1>i, <2>3, <3>1
    <3>2. CASE i \in DOMAIN out[e] /\ out'[e][i] = out[e][i]
      BY <2>1, <2>4, <3>2
    <3>. QED  BY <1>1, <1>6, <2>4, <3>1, <3>2, ArrivalItems
  <2>5. /\ NumbersFor(Buffered(e), e)' = NumbersFor(Buffered(e), e)
        /\ InOrderFor(Buffered(e), e)'
    BY <1>2, <2>1 DEF Buffered, NumbersFor, InOrderFor
  <2>6. fd_cell'[w] \in unintercepted_fd'
    BY <1>p, <1>1, <1>2
  <2>. QED  BY <1>p, <1>1, <2>1, <2>2, <2>3, <2>4, <2>5, <2>6 DEF InFlight, FrameCount, FrameAt
<1>10. \A x \in End : Up(x) => /\ NumbersFor(Buffered(x), x)' = NumbersFor(Buffered(x), x)
                               /\ InOrderFor(Buffered(x), x)'
  BY <1>2 DEF FlowInv, FramesFollow, InFlight, Buffered, NumbersFor, InOrderFor
<1>11. is_direct => n = Len(out[e]) + 1 /\ read'[w] = n
  BY <1>p, <1>1, <1>3, <1>4 DEF FlowInv, DirectForwarded
<1>12. FlowInv'
  BY <1>p, <1>1, <1>2, <1>3, <1>4, <1>5, <1>6, <1>9, <1>10, <1>11, <1>b, <1>i, MessagesSub, ArrivalFlow
<1>. QED  BY <1>p, <1>1, <1>4, <1>8, <1>12 DEF Arrives

\* The first buffered message for an open end is its next frame.
LEMMA CommandDelivers ==
  ASSUME Inv, FlowInv, TypeOK', Dequeue, DeliverBody(HeadMsg)
  PROVE  FlowInv' /\ \E e \in End : \E n \in Nat : Arrives(e, n)
<1>. DEFINE s == network[waiting]
<1>0. /\ TypeOK /\ TablesInv /\ waiting \in Channel /\ s \in Seq(Msg) /\ s # <<>>
      /\ Head(s) \in Msg /\ HeadMsg = Head(s)
      /\ \A ch \in Channel : network'[ch] = IF ch = waiting THEN Tail(s) ELSE network[ch]
  BY HeadTailType DEF Inv, TablesInv, Dequeue, TypeOK, HeadMsg
<1>m. PICK m \in Msg : m = HeadMsg
  BY <1>0
<1>e. PICK e \in End, w \in End, n \in Nat : e = m.fd /\ w = m.from /\ n = m.n
  BY DEF Msg
<1>1. w = Peer(e) /\ Chan(w) = waiting
  <2>1. 1 \in DOMAIN s /\ Head(s) = s[1]
    BY <1>0, HeadTailProperties
  <2>. QED  BY <1>0, <1>m, <1>e, <2>1 DEF Inv, MessagesAddressed, FlowInv, OwnChannel
<1>2. UNCHANGED <<asked, backlog, sent, read, fd_cell, fd_to_channel_status,
                  unintercepted_fd>>
  BY DEF Dequeue, DeliverBody, kernel, tables
<1>3. /\ fd_cell[e] \in Fd /\ ~Disconnected(fd_cell[e])
      /\ WriteItem(fd_cell[e], [from |-> w, n |-> n, raw |-> FALSE, whole |-> TRUE])
  BY <1>m, <1>e DEF DeliverBody, Deliverable
<1>4. Up(e) /\ fd_cell[e] # NoFd /\ ~is_direct
  <2>1. DOMAIN s # {}
    BY <1>0, HeadTailProperties
  <2>. QED  BY <1>0, <1>3, <2>1, Sentinels DEF Up, FlowInv, DirectForwarded
<1>i. PICK item \in Item : /\ item = [from |-> w, n |-> n, raw |-> FALSE, whole |-> TRUE]
                           /\ item.from = w /\ item.n = n /\ ~item.raw
  <2>. DEFINE r == [from |-> w, n |-> n, raw |-> FALSE, whole |-> TRUE]
  <2>1. r \in Item
    BY DEF Item
  <2>2. r.from = w /\ r.n = n /\ ~r.raw
    OBVIOUS
  <2>. HIDE DEF r
  <2>. QED  BY <2>1, <2>2 DEF r
<1>. HIDE DEF s
<1>5. PICK last \in 0 .. read[w] :
        /\ fd_cell[w] \notin unintercepted_fd => last = read[w]
        /\ \A i \in DOMAIN out[e] : out[e][i].raw => last < out[e][i].n
        /\ FrameCount(out[e]) <= last
        /\ NumbersFor(s, e) = (FrameCount(out[e]) + 1) .. last
        /\ InOrderFor(s, e)
  BY <1>1, <1>4 DEF FlowInv, FramesFollow, InFlight, Buffered, s
<1>6. FrameCount(out[e]) \in Nat /\ read[w] \in Nat /\ last \in Nat /\ last <= read[w]
  <2>1. out[e] \in Seq(Item) /\ read[w] \in Nat
    BY <1>0 DEF TypeOK
  <2>2. FrameCount(out[e]) \in Nat
    BY <1>i, <2>1, FrameCounts
  <2>. QED  BY <2>1, <2>2
<1>7. /\ InOrderFor(Tail(s), e)
      /\ NumbersFor(s, e) = NumbersFor(Tail(s), e) \cup {n}
      /\ \A k \in NumbersFor(Tail(s), e) : n < k
  <2>1. Head(s).fd = e /\ Head(s).n = n
    BY <1>0, <1>m, <1>e
  <2>. QED  BY <1>0, <1>5, <2>1, TailFor
<1>8. n = FrameCount(out[e]) + 1 /\ n <= last
  <2>1. n \in (FrameCount(out[e]) + 1) .. last
    BY <1>5, <1>7
  <2>2. FrameCount(out[e]) + 1 \in NumbersFor(Tail(s), e) \cup {n}
    BY <1>5, <1>6, <1>7, <2>1
  <2>. QED  BY <1>6, <1>7, <2>1, <2>2
<1>9. NumbersFor(Tail(s), e) = (n + 1) .. last
  <2>1. NumbersFor(Tail(s), e) \cup {n} = n .. last
    BY <1>5, <1>7, <1>8
  <2>2. n \notin NumbersFor(Tail(s), e)
    <3>1. ~(n < n)
      OBVIOUS
    <3>. QED  BY <1>7, <3>1
  <2>3. NumbersFor(Tail(s), e) = (n .. last) \ {n}
    BY <2>1, <2>2
  <2>4. (n .. last) \ {n} = (n + 1) .. last
    BY <1>6
  <2>. QED  BY <2>3, <2>4
<1>10. Arrival(e, item)
  <2>1. out' = [out EXCEPT ![e] = Append(@, item)]
    BY <1>0, <1>3, <1>i, WriteArrives
  <2>2. item.from = w /\ item.n \in 1 .. read'[w]
    BY <1>2, <1>6, <1>8, <1>i
  <2>. QED  BY <1>1, <1>2, <2>1, <2>2 DEF Arrival
<1>11. FrameArrives(e, n)
  <2>1. \A i \in DOMAIN out[e] : out[e][i].raw => n < out[e][i].n
    <3>1. \A i \in DOMAIN out[e] : out[e][i].n \in 1 .. read[w]
      BY <1>1 DEF FlowInv, ReadBounds
    <3>. QED  BY <1>5, <1>6, <1>8, <3>1
  <2>2. n <= Len(sent[w])
    <3>1. read[w] <= Len(sent[w]) /\ Len(sent[w]) \in Nat
      BY <1>0 DEF FlowInv, ReadBounds, TypeOK
    <3>. QED  BY <1>6, <1>8, <3>1
  <2>3. Arrival(e, [from |-> Peer(e), n |-> n, raw |-> FALSE, whole |-> TRUE])
    BY <1>1, <1>10, <1>i
  <2>. QED  BY <1>1, <1>4, <1>8, <2>1, <2>2, <2>3 DEF FrameArrives
<1>12. InFlight(e)'
  <2>1. FrameCount(out'[e]) = n
    BY <1>0, <1>8, <1>10, <1>i, ArrivalOut
  <2>2. \A i \in DOMAIN out'[e] : out'[e][i].raw => last < out'[e][i].n
    <3>1. \A i \in DOMAIN out'[e] :
            out'[e][i] = item \/ (i \in DOMAIN out[e] /\ out'[e][i] = out[e][i])
      BY <1>0, <1>10, ArrivalItems
    <3>. QED  BY <1>5, <1>i, <3>1
  <2>3. Buffered(e)' = Tail(s)
    BY <1>0, <1>1 DEF Buffered
  <2>4. InOrderFor(Buffered(e), e)' /\ NumbersFor(Buffered(e), e)' = NumbersFor(Tail(s), e)
    BY <1>7, <2>3 DEF InOrderFor, NumbersFor
  <2>5. FrameCount(out[e])' = n
    BY <2>1 DEF FrameCount, FrameAt
  <2>6. /\ last \in 0 .. read'[Peer(e)] /\ read'[Peer(e)] = read[w]
        /\ fd_cell'[Peer(e)] = fd_cell[w] /\ unintercepted_fd' = unintercepted_fd
    BY <1>1, <1>2
  <2>. QED  BY <1>5, <1>8, <1>9, <2>2, <2>4, <2>5, <2>6 DEF InFlight
<1>13. /\ \A ch \in Channel : \A i \in DOMAIN network'[ch] :
             \E j \in DOMAIN network[ch] : network'[ch][i] = network[ch][j]
       /\ \A x \in End : Up(x) /\ x # e =>
            /\ NumbersFor(Buffered(x), x)' = NumbersFor(Buffered(x), x)
            /\ InOrderFor(Buffered(x), x)'
  BY <1>0, <1>e, <1>m, DequeueOthers
<1>14. FlowInv'
  BY <1>0, <1>1, <1>2, <1>4, <1>10, <1>12, <1>13, <1>i, ArrivalFlow
<1>. QED  BY <1>11, <1>14 DEF Arrives

\* A frame that has been read is buffered.
LEMMA BufferFlow ==
  ASSUME Inv, FlowInv, TypeOK', NEW f \in Fd, ReceiveFrame(f), ~Disconnected(f), ~is_direct,
         BufferLast(Chan(EndOf(f)), NewMsg(f))
  PROVE  FlowInv'
<1>a. PICK w \in End, e \in End, n \in Nat :
        w = EndOf(f) /\ e = Peer(w) /\ n = read[w] + 1
  <2>1. EndOf(f) \in End
    BY EntryType DEF Inv, ReceiveFrame, Readable
  <2>2. read[EndOf(f)] + 1 \in Nat
    BY <2>1 DEF Inv, TypeOK
  <2>. QED  BY <2>1, <2>2, PeerFacts
<1>m. PICK m \in Msg : m = NewMsg(f) /\ m.fd = e /\ m.from = w /\ m.n = n
  <2>. DEFINE r == [fd |-> e, from |-> w, n |-> n]
  <2>1. r \in Msg
    BY DEF Msg
  <2>2. r.fd = e /\ r.from = w /\ r.n = n
    OBVIOUS
  <2>3. NewMsg(f) = r
    BY <1>a DEF NewMsg, Next_n
  <2>. HIDE DEF r
  <2>. QED  BY <2>1, <2>2, <2>3
<1>1. /\ TypeOK /\ TablesInv /\ fd_cell[w] = f /\ fd_cell[w] # NoFd /\ Peer(e) = w
      /\ f \notin unintercepted_fd
  BY <1>a, PeerFacts, Sentinels
     DEF Inv, TablesInv, ReceiveFrame, Readable, DescriptorsConsistent
<1>2. /\ read' = [read EXCEPT ![w] = n] /\ n <= Len(sent[w])
      /\ UNCHANGED <<asked, backlog, sent, fd_cell, fd_to_channel_status,
                     unintercepted_fd, out>>
  BY <1>a DEF ReceiveFrame, Readable, Consume, Next_n, BufferLast, kernel, tables
<1>3. read[w] \in Nat /\ n = read[w] + 1 /\ read'[w] = n
  BY <1>a, <1>1, <1>2 DEF TypeOK
<1>4. \A x \in End : x # w => read'[x] = read[x]
  BY <1>1, <1>2 DEF TypeOK
<1>5. \A x \in End : /\ read[x] \in Nat /\ read'[x] \in Nat /\ Len(sent[x]) \in Nat
                     /\ read[x] <= read'[x] /\ read'[x] <= Len(sent[x])
  <2>1. \A x \in End : /\ read[x] \in Nat /\ Len(sent[x]) \in Nat
                       /\ read[x] <= Len(sent[x])
    BY <1>1 DEF TypeOK, FlowInv, ReadBounds
  <2>. QED  BY <1>2, <1>3, <1>4, <2>1
<1>6. PICK own \in Channel, s \in Seq(Msg) : own = Chan(w) /\ s = network[own]
  BY <1>1, ChanType DEF TypeOK
<1>7. \A ch \in Channel : network'[ch] = IF ch = own THEN Append(s, m) ELSE network[ch]
  <2>. DEFINE S == Seq(Msg)
  <2>1. network \in [Channel -> S]
    BY <1>1 DEF TypeOK
  <2>2. network' = [network EXCEPT ![own] = Append(s, m)]
    BY <1>a, <1>m, <1>6 DEF BufferLast
  <2>. HIDE DEF S
  <2>. QED  BY <2>1, <2>2
<1>8. /\ DOMAIN s = 1 .. Len(s) /\ Len(s) \in Nat /\ DOMAIN Append(s, m) = 1 .. (Len(s) + 1)
      /\ \A i \in 1 .. Len(s) : Append(s, m)[i] = s[i]
      /\ Append(s, m)[Len(s) + 1] = m
  BY AppendProperties, LenProperties
<1>9. ASSUME NEW ch \in Channel, NEW i \in DOMAIN network'[ch]
      PROVE  \/ i \in DOMAIN network[ch] /\ network'[ch][i] = network[ch][i]
             \/ ch = own /\ network'[ch][i] = m
  <2>1. CASE ch = own
    <3>1. i = Len(s) + 1 \/ i \in DOMAIN s
      <4>1. i \in 1 .. (Len(s) + 1)
        BY <1>7, <1>8, <1>9, <2>1
      <4>. QED  BY <1>8, <4>1
    <3>. QED  BY <1>6, <1>7, <1>8, <2>1, <3>1
  <2>2. CASE ch # own
    BY <1>7, <1>9, <2>2
  <2>. QED  BY <2>1, <2>2
<1>10. ReadBounds'
  <2>1. ASSUME NEW x \in End, NEW i \in DOMAIN out[x]
        PROVE  out[x][i].n \in 1 .. read'[Peer(x)]
    <3>1. out[x][i].n \in 1 .. read[Peer(x)] /\ Peer(x) \in End
      BY PeerFacts DEF FlowInv, ReadBounds
    <3>. QED  BY <1>5, <3>1
  <2>. QED  BY <1>2, <1>5, <2>1 DEF ReadBounds
<1>11. NewIsEmpty'
  <2>1. /\ ~New(e[1]) /\ ~New(w[1]) /\ \A c : New(c)' <=> New(c)
    <3>1. e[1] = w[1]
      BY <1>a DEF Peer
    <3>. QED  BY <1>1, <1>2, <3>1 DEF New, Waits, Inv, ConnectedOnce
  <2>2. ASSUME NEW x \in End, New(x[1]) PROVE out'[x] = <<>> /\ read'[x] = 0
    BY <1>2, <1>4, <2>1, <2>2 DEF FlowInv, NewIsEmpty
  <2>3. ASSUME NEW ch \in Channel, NEW i \in DOMAIN network'[ch],
               NEW c, c = network'[ch][i].fd[1]
        PROVE  ~New(c)
    BY <1>m, <1>9, <2>1, <2>3 DEF FlowInv, NewIsEmpty
  <2>. QED  BY <2>1, <2>2, <2>3 DEF NewIsEmpty
<1>12. OwnChannel'
  <2>1. ASSUME NEW ch \in Channel, NEW i \in DOMAIN network'[ch]
        PROVE  Chan(network'[ch][i].from) = ch
    BY <1>m, <1>6, <1>9 DEF FlowInv, OwnChannel
  <2>. QED  BY <2>1 DEF OwnChannel
<1>13. RawKnown'
  <2>1. ASSUME NEW g \in unintercepted_fd
        PROVE  HasEntry(g) /\ \E j \in 1 .. read'[EndOf(g)] : sent[EndOf(g)][j] = "raw"
    <3>1. HasEntry(g) /\ EndOf(g) \in End
      BY <1>1, EntryType DEF FlowInv, RawKnown, TypeOK
    <3>2. PICK j \in 1 .. read[EndOf(g)] : sent[EndOf(g)][j] = "raw"
      BY DEF FlowInv, RawKnown
    <3>3. j \in 1 .. read'[EndOf(g)]
      BY <1>5, <3>1, <3>2
    <3>. QED  BY <3>1, <3>2, <3>3
  <2>. QED  BY <1>2, <2>1 DEF RawKnown, HasEntry, EndOf
<1>14. ASSUME NEW x \in End, Up(x), x # e PROVE InFlight(x)'
  <2>1. Peer(x) \in End /\ Peer(x) # w
    BY <1>a, <1>14, PeerFacts
  <2>2. InFlight(x)
    BY <1>14 DEF FlowInv, FramesFollow
  <2>3. /\ NumbersFor(Buffered(x), x)' = NumbersFor(Buffered(x), x)
        /\ InOrderFor(Buffered(x), x)'
    <3>1. CASE Chan(Peer(x)) # own
      <4>1. Buffered(x)' = Buffered(x)
        BY <1>7, <2>1, <3>1, ChanType DEF Buffered
      <4>. QED  BY <2>2, <4>1 DEF InFlight, NumbersFor, InOrderFor
    <3>2. CASE Chan(Peer(x)) = own
      <4>1. Buffered(x) = s /\ Buffered(x)' = Append(s, m) /\ m.fd # x
        BY <1>m, <1>6, <1>7, <1>14, <3>2 DEF Buffered
      <4>2. /\ NumbersFor(Append(s, m), x) = NumbersFor(s, x)
            /\ InOrderFor(Append(s, m), x)
        BY <2>2, <4>1, AppendOther DEF InFlight
      <4>3. /\ NumbersFor(Buffered(x), x)' = NumbersFor(Append(s, m), x)
            /\ InOrderFor(Buffered(x), x)' <=> InOrderFor(Append(s, m), x)
        BY <4>1 DEF NumbersFor, InOrderFor
      <4>. QED  BY <4>1, <4>2, <4>3
    <3>. QED  BY <3>1, <3>2
  <2>4. read'[Peer(x)] = read[Peer(x)]
    BY <1>4, <2>1
  <2>. QED  BY <1>2, <2>2, <2>3, <2>4 DEF InFlight, FrameCount, FrameAt
<1>15. ASSUME Up(e) PROVE InFlight(e)'
  <2>1. PICK last \in 0 .. read[w] :
          /\ last = read[w]
          /\ \A i \in DOMAIN out[e] : out[e][i].raw => last < out[e][i].n
          /\ FrameCount(out[e]) <= last
          /\ NumbersFor(s, e) = (FrameCount(out[e]) + 1) .. last
          /\ InOrderFor(s, e)
    BY <1>1, <1>6, <1>15 DEF FlowInv, FramesFollow, InFlight, Buffered
  <2>2. FrameCount(out[e]) \in Nat
    <3>1. out[e] \in Seq(Item) /\ [from |-> w, n |-> n, raw |-> FALSE, whole |-> TRUE] \in Item
      BY <1>1 DEF TypeOK, Item
    <3>. QED  BY <3>1, FrameCounts
  <2>3. \A i \in DOMAIN out[e] : ~out[e][i].raw
    <3>1. \A i \in DOMAIN out[e] : out[e][i].n \in 1 .. read[w]
      BY <1>1 DEF FlowInv, ReadBounds
    <3>. QED  BY <1>3, <2>1, <3>1
  <2>4. /\ NumbersFor(Append(s, m), e) = NumbersFor(s, e) \cup {n}
        /\ InOrderFor(Append(s, m), e)
    <3>1. \A k \in NumbersFor(s, e) : k < n
      BY <1>3, <2>1, <2>2
    <3>. QED  BY <1>m, <2>1, <3>1, AppendOwn
  <2>5. NumbersFor(Append(s, m), e) = (FrameCount(out[e]) + 1) .. n
    BY <1>3, <2>1, <2>2, <2>4
  <2>6. Buffered(e)' = Append(s, m)
    BY <1>1, <1>6, <1>7 DEF Buffered
  <2>7. InOrderFor(Buffered(e), e)' /\ NumbersFor(Buffered(e), e)' = NumbersFor(Append(s, m), e)
    BY <2>4, <2>6 DEF InOrderFor, NumbersFor
  <2>8. FrameCount(out[e])' = FrameCount(out[e]) /\ out' = out /\ FrameCount(out[e]) <= n
    BY <1>2, <1>3, <2>1, <2>2 DEF FrameCount, FrameAt
  <2>9. n \in 0 .. read'[Peer(e)] /\ n = read'[Peer(e)]
    BY <1>1, <1>3
  <2>. QED  BY <2>3, <2>5, <2>7, <2>8, <2>9 DEF InFlight
<1>16. FramesFollow'
  BY <1>2, <1>14, <1>15 DEF FramesFollow, Up, Disconnected
<1>17. DirectForwarded' /\ RawOnlyAfterBadFrame'
  BY <1>2 DEF DirectForwarded, FlowInv, RawOnlyAfterBadFrame
<1>. QED  BY <1>10, <1>11, <1>12, <1>13, <1>16, <1>17 DEF FlowInv

-----------------------------------------------------------------------------
(* Every step keeps the invariant.                                           *)

\* What a step of the router is for those who receive: nothing arrives, or the
\* next frame or something unframed does, or a frame is buffered.
Moves ==
  \/ Quiet
  \/ \E e \in End : \E n \in Nat : Arrives(e, n)
  \/ UNCHANGED <<fd_cell, fd_to_channel_status, out>>

\* What is read at a connection marked disconnected is dropped.
LEMMA DropQuiet ==
  ASSUME Inv, FlowInv, TypeOK', NEW f \in Fd, ReceiveFrame(f), Disconnected(f),
         UNCHANGED <<out, tables, buffers>>
  PROVE  Quiet
<1>. DEFINE F == Pair(f)
            e == EndOf(f)
<1>1. /\ TypeOK /\ TablesInv /\ HasEntry(f) /\ e \in End /\ fd_cell[e] = f
      /\ fd_cell[e] # NoFd
  BY EntryType, Sentinels DEF Inv, TablesInv, ReceiveFrame, Readable, DescriptorsConsistent
<1>2. /\ F \in SUBSET Fd /\ ClosedUnderPeer(F) /\ \A g \in F : HasEntry(g)
  BY <1>1, PairType, PairClosed DEF TablesInv
<1>3. \A g \in F : Disconnected(g)
  BY <1>1, PairHasPeer
<1>4. ~is_direct
  BY <1>1 DEF FlowInv, DirectForwarded, Up
<1>5. Tag(F)
  <2>1. \A g \in F : fd_to_channel_status[g] = [self_fd |-> EndOf(g), disconnected |-> TRUE]
    <3>1. ASSUME NEW g \in F
          PROVE  fd_to_channel_status[g] = [self_fd |-> EndOf(g), disconnected |-> TRUE]
      <4>1. fd_to_channel_status[g] \in [self_fd : End, disconnected : BOOLEAN]
        BY <1>1, <1>2 DEF TypeOK, HasEntry
      <4>2. fd_to_channel_status[g].disconnected = TRUE
        BY <1>3, <4>1 DEF Disconnected
      <4>. QED  BY <4>1, <4>2 DEF EndOf
    <3>. QED  BY <3>1
  <2>. HIDE DEF F
  <2>2. fd_to_channel_status = [g \in Fd |->
          IF g \in F THEN [self_fd |-> EndOf(g), disconnected |-> TRUE]
                     ELSE fd_to_channel_status[g]]
    BY <1>1, <1>2, <2>1 DEF TypeOK
  <2>. QED  BY <2>2 DEF Tag, tables
<1>6. /\ UNCHANGED <<asked, backlog, sent, network, out>>
      /\ Readable(f, FrameKinds) /\ Consume(f)
  BY DEF ReceiveFrame, kernel, buffers
<1>7. \A x \in End : \/ read'[x] = read[x]
                     \/ /\ fd_cell[x] \in F
                        /\ read'[x] = read[x] + 1 /\ read'[x] <= Len(sent[x])
  BY <1>1, <1>6 DEF Consume, Readable, Next_n, TypeOK, Pair
<1>. QED  BY <1>2, <1>4, <1>5, <1>6, <1>7, MessagesSub, QuietTables

\* With DIRECT a frame read at f is written to the other end or ends the
\* connection.
LEMMA DirectFlow ==
  ASSUME Inv, FlowInv, TypeOK', NEW f \in Fd, ReceiveFrame(f), ~Disconnected(f), is_direct,
         deliver(NewMsg(f)), UNCHANGED buffers
  PROVE  FlowInv' /\ Moves
<1>. DEFINE m == NewMsg(f)
            e == EndOf(f)
            g == fd_cell[Peer(e)]
<1>1. /\ TypeOK /\ TablesInv /\ HasEntry(f) /\ e \in End /\ fd_cell[e] = f
      /\ fd_cell[e] # NoFd /\ fd_cell[m.fd] = g
  BY EntryType, Sentinels
     DEF Inv, TablesInv, ReceiveFrame, Readable, DescriptorsConsistent, NewMsg
<1>2. g \in Fd /\ HasEntry(g) /\ ~Disconnected(g) /\ g \in Pair(f)
  BY <1>1, PairHasPeer
<1>3. ~DeliverDrop(m)
  BY <1>1, <1>2 DEF DeliverDrop, Deliverable
<1>4. CASE DeliverBody(m)
  BY <1>4, DirectDelivers DEF Moves
<1>5. CASE DeliverFails(m)
  <2>1. Close(Pair(g)) /\ UNCHANGED out
    BY <1>1, <1>5 DEF DeliverFails
  <2>2. /\ UNCHANGED <<asked, backlog, sent, network, out>>
        /\ Readable(f, FrameKinds) /\ Consume(f)
    BY <2>1 DEF ReceiveFrame, kernel, buffers
  <2>3. Quiet
    BY <1>1, <1>2, <2>1, <2>2, ReadAndClose
  <2>. QED  BY <1>1, <2>3, QuietFlow DEF Moves, Inv
<1>. QED  BY <1>3, <1>4, <1>5 DEF deliver

LEMMA ReceiveFlow ==
  ASSUME Inv, FlowInv, TypeOK', NEW f \in Fd, do_receive(f)
  PROVE  FlowInv' /\ Moves
<1>1. CASE ReceiveFrame(f)
  <2>1. CASE Disconnected(f) /\ UNCHANGED <<out, tables, buffers>>
    BY <1>1, <2>1, DropQuiet, QuietFlow DEF Moves, Inv
  <2>2. CASE ~Disconnected(f) /\ is_direct /\ deliver(NewMsg(f)) /\ UNCHANGED buffers
    BY <1>1, <2>2, DirectFlow
  <2>3. CASE ~Disconnected(f) /\ ~is_direct /\ BufferLast(Chan(EndOf(f)), NewMsg(f))
    <3>1. UNCHANGED <<fd_cell, fd_to_channel_status, out>>
      BY <2>3 DEF BufferLast, tables
    <3>. QED  BY <1>1, <2>3, <3>1, BufferFlow DEF Moves
  <2>. QED  BY <1>1, <2>1, <2>2, <2>3 DEF ReceiveFrame, enqueue_msg
<1>2. ASSUME NEW kinds, Readable(f, kinds), Consume(f), Close(Pair(f)),
             UNCHANGED <<asked, backlog, sent, out, network>>
      PROVE  FlowInv' /\ Moves
  <2>1. HasEntry(f) /\ f \in Pair(f)
    BY <1>2 DEF Readable, Pair
  <2>. QED  BY <1>2, <2>1, ReadAndClose, QuietFlow DEF Moves, Inv
<1>3. CASE ReceiveEnd(f)
  BY <1>2, <1>3 DEF ReceiveEnd, EndsConnection, kernel, buffers
<1>4. CASE ReceiveRaw(f)
  <2>. DEFINE g == fd_cell[Peer(EndOf(f))]
  <2>1. CASE PassOn(f, g)
    BY <1>4, <2>1, PassOnArrives DEF Moves
  <2>2. CASE PassOnFails(f, g)
    BY <1>2, <1>4, <2>2 DEF ReceiveRaw, PassOnFails, kernel, buffers
  <2>. QED  BY <1>4, <2>1, <2>2 DEF ReceiveRaw
<1>. QED  BY <1>1, <1>3, <1>4 DEF do_receive

LEMMA CommandFlow ==
  ASSUME Inv, FlowInv, TypeOK', Commands
  PROVE  FlowInv' /\ Moves
<1>. USE DEF kernel, buffers
<1>1. TypeOK /\ TablesInv /\ NoCrossTalk
  BY DEF Inv, TablesInv
<1>2. ASSUME Quiet PROVE FlowInv' /\ Moves
  BY <1>1, <1>2, QuietFlow DEF Moves
<1>3. ASSUME UNCHANGED <<asked, backlog, sent, read, out, tables, network>>
      PROVE  FlowInv' /\ Moves
  <2>1. \A c \in Conn : New(c)' => New(c)
    BY <1>3 DEF New, Waits
  <2>2. \A e \in End : Len(sent[e]) \in Nat
    BY <1>1 DEF TypeOK
  <2>3. UNCHANGED <<fd_cell, fd_to_channel_status, unintercepted_fd>>
    BY <1>3 DEF tables
  <2>. QED  BY <1>1, <1>2, <1>3, <2>1, <2>2, <2>3, QuietSame
<1>4. ASSUME Dequeue PROVE ~is_direct /\ UNCHANGED <<asked, backlog, sent, read>>
  <2>1. network[waiting] \in Seq(Msg) /\ network[waiting] # <<>> /\ waiting \in Channel
    BY <1>1, <1>4 DEF Dequeue, TypeOK
  <2>2. DOMAIN network[waiting] # {}
    BY <2>1, HeadTailProperties
  <2>. QED  BY <1>4, <2>1, <2>2 DEF FlowInv, DirectForwarded, Dequeue
<1>5. ASSUME Dequeue, UNCHANGED <<out, tables>>, ~Up(HeadMsg.fd)
      PROVE  FlowInv' /\ Moves
  <2>1. Tag({}) /\ ClosedUnderPeer({})
    BY <1>1, <1>5, TagNothing
  <2>2. Quiet
    BY <1>4, <1>5, <2>1, DequeueQuiet
  <2>. QED  BY <1>2, <2>2
<1>6. CASE DequeueDead
  BY <1>5, <1>6 DEF DequeueDead, Up
<1>7. CASE DequeueDeliver
  <2>. DEFINE m == HeadMsg
              f == fd_cell[m.fd]
  <2>1. Dequeue /\ f # NoFd /\ deliver(m)
    BY <1>7 DEF DequeueDeliver
  <2>2. CASE DeliverBody(m)
    BY <2>1, <2>2, CommandDelivers DEF Moves
  <2>3. CASE DeliverDrop(m)
    <3>1. m \in Msg
      BY <1>1, <2>1, HeadTailType DEF Dequeue, TypeOK, HeadMsg
    <3>2. f \in Fd /\ HasEntry(f)
      BY <1>1, <2>1, <3>1 DEF TablesInv, DescriptorsConsistent, TypeOK, Msg
    <3>3. ~Up(m.fd)
      BY <2>3, <3>2 DEF DeliverDrop, Deliverable, Up
    <3>. QED  BY <1>5, <2>1, <2>3, <3>3 DEF DeliverDrop
  <2>4. CASE DeliverFails(m)
    <3>1. Tag(Pair(f)) /\ UNCHANGED out /\ f \in Fd /\ HasEntry(f)
      BY <1>4, <2>1, <2>4 DEF DeliverFails, Deliverable
    <3>2. Pair(f) \in SUBSET Fd /\ ClosedUnderPeer(Pair(f)) /\ f \in Pair(f)
      BY <1>1, <3>1, PairType, PairClosed DEF TablesInv, Pair
    <3>3. Quiet
      BY <1>4, <2>1, <3>1, <3>2, DequeueQuiet
    <3>. QED  BY <1>2, <3>3
  <2>. QED  BY <2>1, <2>2, <2>3, <2>4 DEF deliver
<1>8. ASSUME NEW node \in Node, partition(node) PROVE FlowInv' /\ Moves
  <2>1. /\ Tag(PairsOf(node)) /\ ~is_direct
        /\ UNCHANGED <<asked, backlog, sent, read, out, network>>
    BY <1>8 DEF partition, Commanding
  <2>2. PairsOf(node) \in SUBSET Fd /\ ClosedUnderPeer(PairsOf(node))
    BY <1>1, PairsOfClosed DEF TablesInv
  <2>3. Quiet
    BY <2>1, <2>2, MessagesSub, QuietTables
  <2>. QED  BY <1>2, <2>3
<1>9. ASSUME NEW node \in Node, recover(node) PROVE FlowInv' /\ Moves
  BY <1>2, <1>9, RecoverQuiet
<1>10. CASE (\E ch \in Channel : DeliverCmd(ch)) \/ DeliverTimeout \/ print_status
  BY <1>3, <1>10 DEF DeliverCmd, DeliverTimeout, print_status
<1>. QED  BY <1>6, <1>7, <1>8, <1>9, <1>10 DEF Commands, Delivery

LEMMA FlowStep == Inv /\ FlowInv /\ [Next]_vars => FlowInv'
<1>. SUFFICES ASSUME Inv, FlowInv, [Next]_vars PROVE FlowInv'
  OBVIOUS
<1>1. TypeOK' /\ TypeOK /\ NoCrossTalk
  BY TypeStep DEF Inv
<1>2. CASE Environment
  BY <1>1, <1>2, EnvironmentQuiet, QuietFlow
<1>3. CASE Accept
  BY <1>1, <1>3, AcceptQuiet, QuietFlow
<1>4. ASSUME NEW f \in Fd, do_receive(f) PROVE FlowInv'
  BY <1>1, <1>4, ReceiveFlow
<1>5. CASE Commands
  BY <1>1, <1>5, CommandFlow
<1>6. CASE UNCHANGED vars
  <2>1. UNCHANGED <<fd_cell, fd_to_channel_status, unintercepted_fd, network, read, out,
                    asked, backlog, sent>>
    BY <1>6 DEF vars, kernel, tables, buffers
  <2>2. \A c \in Conn : New(c)' => New(c)
    BY <2>1 DEF New, Waits
  <2>3. \A e \in End : Len(sent[e]) \in Nat
    BY <1>1 DEF TypeOK
  <2>4. Quiet
    BY <1>1, <2>1, <2>2, <2>3, QuietSame
  <2>. QED  BY <1>1, <2>4, QuietFlow
<1>. QED  BY <1>2, <1>3, <1>4, <1>5, <1>6 DEF Next, Epoll

\* What is in flight for an open end continues what it has received.
THEOREM FlowInvariance == Spec => []FlowInv
<1>1. Inv /\ FlowInv /\ [Next]_vars => FlowInv'
  BY FlowStep
<1>. QED  BY FlowInit, <1>1, Invariance, PTL DEF Spec

\* A connection's bytes are passed on unframed only once it has itself sent some
\* that fail validation, whatever happened on the descriptors before it.
THEOREM UnframedOnlyAfterBadFrame == Spec => []RawOnlyAfterBadFrame
<1>1. FlowInv => RawOnlyAfterBadFrame
  BY DEF FlowInv
<1>. QED  BY FlowInvariance, <1>1, PTL

\* With DIRECT an end receives exactly the first items the other end wrote.
THEOREM DirectInOrder == Spec => []DirectKeepsOrder
<1>1. FlowInv => DirectKeepsOrder
  BY DEF FlowInv, DirectForwarded, DirectKeepsOrder
<1>. QED  BY FlowInvariance, <1>1, PTL

-----------------------------------------------------------------------------
(* The router implements Link.                                               *)

\* The state of a connection, seen from either end.
LinkSeen ==
  \A e \in End : /\ LinkState(e[1]) = "up" <=> Up(e)
                 /\ LinkState(e[1]) = "new" <=> New(e[1])
                 /\ LinkState(e[1]) \in {"new", "up", "cut"}

LEMMA LinkStates == Inv => LinkSeen
<1>. SUFFICES ASSUME Inv, NEW e \in End
              PROVE  /\ LinkState(e[1]) = "up" <=> Up(e)
                     /\ LinkState(e[1]) = "new" <=> New(e[1])
                     /\ LinkState(e[1]) \in {"new", "up", "cut"}
  BY DEF LinkSeen
<1>. DEFINE c == e[1]
            client == <<c, "client">>
<1>1. c \in Conn /\ client \in End /\ (client = e \/ client = Peer(e))
      /\ Peer(Peer(e)) = e /\ Peer(e) \in End /\ client[1] = c
  BY PeerFacts DEF End, Side, Peer
<1>2. TypeOK /\ TablesInv
  BY DEF Inv, TablesInv
<1>3. Up(client) <=> Up(e)
  <2>1. ASSUME NEW x \in End, fd_cell[x] # NoFd
        PROVE  fd_cell[Peer(x)] # NoFd
               /\ Disconnected(fd_cell[Peer(x)]) = Disconnected(fd_cell[x])
    BY <1>2, <2>1, PairHasPeer, Sentinels
  <2>2. \A x \in End : Up(x) => Up(Peer(x))
    BY <2>1 DEF Up
  <2>. QED  BY <1>1, <2>2
<1>4. fd_cell[client] # NoFd => ~New(c)
  BY <1>1 DEF Inv, ConnectedOnce, New
<1>. QED  BY <1>3, <1>4 DEF LinkState, Up, New

LEMMA LinkStatesNext ==
  ASSUME Inv, Inv', NEW c \in Conn, NEW e \in End, e[1] = c
  PROVE  /\ LinkState(c) = "up" <=> Up(e)
         /\ LinkState(c) = "new" <=> New(c)
         /\ LinkState(c) \in {"new", "up", "cut"}
         /\ LinkState(c)' = "up" <=> Up(e)'
         /\ LinkState(c)' = "new" <=> New(c)'
         /\ LinkState(c)' \in {"new", "up", "cut"}
<1>1. LinkSeen /\ LinkSeen'
  BY LinkStates, PTL
<1>. QED  BY <1>1 DEF LinkSeen

\* Whatever leaves no connection newly open at most cuts some.
LEMMA LinkCut ==
  ASSUME Inv, Inv', \A e \in End : Up(e)' => Up(e), \A c \in Conn : New(c)' => New(c),
         UNCHANGED <<sent, out>>
  PROVE  [TheLink!Next]_(TheLink!vars)
<1>. DEFINE C == {c \in Conn : LinkState(c)' # LinkState(c)}
<1>1. ASSUME NEW c \in Conn PROVE LinkState(c)' = LinkState(c) \/ LinkState(c)' = "cut"
  <2>. DEFINE e == <<c, "client">>
  <2>1. e \in End /\ e[1] = c
    BY DEF End, Side
  <2>. QED  BY <2>1, LinkStatesNext
<1>2. CASE C = {}
  BY <1>2 DEF TheLink!vars
<1>3. CASE C # {}
  <2>1. C \in SUBSET Conn
    OBVIOUS
  <2>2. TheLink!Cut(C)
    BY <1>1, <1>3 DEF TheLink!Cut
  <2>. QED  BY <2>1, <2>2 DEF TheLink!Next
<1>. QED  BY <1>2, <1>3

LEMMA LinkOpen ==
  ASSUME Inv, Inv', RawKnown, NEW c \in Conn, AcceptConnect(c)
  PROVE  TheLink!Open(c)
<1>1. ASSUME NEW d \in Conn
      PROVE  /\ d # c => LinkState(d)' = LinkState(d)
             /\ d = c => LinkState(d) = "new" /\ LinkState(d)' = "up"
  <2>. DEFINE e == <<d, "client">>
  <2>1. e \in End /\ e[1] = d
    BY DEF End, Side
  <2>2. /\ d # c => (New(d)' <=> New(d)) /\ (Up(e)' <=> Up(e))
        /\ d = c => New(d) /\ Up(e)'
    BY <2>1, AcceptOpens DEF Inv
  <2>. QED  BY <2>1, <2>2, LinkStatesNext
<1>2. UNCHANGED <<sent, out>>
  BY AcceptOpens DEF Inv
<1>. QED  BY <1>1, <1>2 DEF TheLink!Open

\* Link has ends of its own, which are these, and counts as is done here.
LEMMA LinkEnds == TheLink!End = End /\ \A e \in End : TheLink!Peer(e) = Peer(e)
BY DEF End, Side, Peer, TheLink!End, TheLink!Side, TheLink!Peer

LEMMA LinkCounts == \A S : TheLink!Cardinality(S) = Cardinality(S)
BY DEF Cardinality, TheLink!Cardinality

\* A step that leaves the tables and the backlog alone leaves Link's states alone.
LEMMA LinkSame ==
  ASSUME UNCHANGED <<asked, backlog, fd_cell, fd_to_channel_status>>
  PROVE  \A c : LinkState(c)' = LinkState(c)
BY DEF LinkState, Waits, Disconnected

LEMMA LinkWrite ==
  ASSUME TypeOK, NEW e \in End, NEW k, sent' = [sent EXCEPT ![e] = Append(@, k)],
         k \in AllKinds \cup {"eof"},
         UNCHANGED <<asked, backlog, fd_cell, fd_to_channel_status, out>>
  PROVE  TheLink!Write(e)
<1>. DEFINE K == AllKinds \cup {"eof"}
<1>1. sent[e] \in Seq(K) /\ sent'[e] = Append(sent[e], k)
      /\ \A x \in End : x # e => sent'[x] = sent[x]
  BY DEF TypeOK
<1>2. Len(sent'[e]) = Len(sent[e]) + 1
  BY <1>1, AppendProperties
<1>3. \A x \in End : Len(sent'[x]) = IF x = e THEN Len(sent[x]) + 1 ELSE Len(sent[x])
  BY <1>1, <1>2
<1>4. [x \in End |-> Len(sent'[x])] = [[x \in End |-> Len(sent[x])] EXCEPT ![e] = @ + 1]
  <2>. DEFINE w == [x \in End |-> Len(sent[x])]
  <2>1. w[e] = Len(sent[e]) /\ w \in [End -> {Len(sent[x]) : x \in End}]
    OBVIOUS
  <2>2. [w EXCEPT ![e] = @ + 1] = [x \in End |-> IF x = e THEN w[x] + 1 ELSE w[x]]
    OBVIOUS
  <2>. QED  BY <1>3, <2>2
<1>. QED  BY <1>4, LinkSame DEF TheLink!Write

LEMMA LinkArrival ==
  ASSUME Inv, NEW e \in End, NEW n \in Nat, Arrives(e, n)
  PROVE  TheLink!Next
<1>. DEFINE w == [x \in End |-> Len(sent[x])]
            st == [c \in Conn |-> LinkState(c)]
<1>0. e[1] \in Conn /\ Peer(e) \in End
  BY PeerFacts DEF End
<1>1. UNCHANGED <<sent, w, st>>
  BY LinkSame DEF Arrives, FrameArrives, RawArrives, Arrival
<1>2. LinkState(e[1]) = "up" <=> Up(e)
  BY LinkStates DEF LinkSeen
<1>3. LinkState(e[1]) = "new" <=> New(e[1])
  BY LinkStates DEF LinkSeen
<1>4. ASSUME NEW raw \in BOOLEAN, NEW whole \in BOOLEAN, n <= Len(sent[Peer(e)]),
             Arrival(e, [from |-> Peer(e), n |-> n, raw |-> raw, whole |-> whole])
      PROVE  TheLink!Arrives(e, n, raw, whole) /\ n \in 1 .. Len(sent[Peer(e)])
  <2>1. n \in 1 .. Len(sent[Peer(e)])
    <3>1. n # 0 /\ Len(sent[Peer(e)]) \in Nat
      BY <1>0, <1>4 DEF Arrival, Inv, TypeOK
    <3>. QED  BY <1>4, <3>1
  <2>2. out' = [out EXCEPT ![e] =
                  Append(@, [from |-> Peer(e), n |-> n, raw |-> raw, whole |-> whole])]
    BY <1>4 DEF Arrival
  <2>. QED  BY <1>0, <1>1, <2>1, <2>2, LinkEnds DEF TheLink!Arrives
<1>5. CASE FrameArrives(e, n)
  <2>. DEFINE m == TheLink!Cardinality(TheLink!FramesIn(out[e])) + 1
  <2>1. m = n
    BY <1>5, LinkCounts DEF FrameArrives, FrameCount, FrameAt, TheLink!FramesIn
  <2>. HIDE DEF m
  <2>2. TheLink!Arrives(e, m, FALSE, TRUE)
    BY <1>4, <1>5, <2>1 DEF FrameArrives
  <2>3. st[e[1]] = "up" /\ \A i \in DOMAIN out[e] : out[e][i].raw => m < out[e][i].n
    BY <1>0, <1>2, <1>5, <2>1 DEF FrameArrives
  <2>4. TheLink!Receive(e)
    BY <2>2, <2>3 DEF TheLink!Receive, m
  <2>. QED  BY <2>4, LinkEnds DEF TheLink!Next
<1>6. CASE RawArrives(e, n)
  <2>1. n \in 1 .. w[Peer(e)] /\ \E whole \in BOOLEAN : TheLink!Arrives(e, n, TRUE, whole)
    BY <1>0, <1>4, <1>6 DEF RawArrives
  <2>2. st[e[1]] # "new" /\ \A i \in DOMAIN out[e] : out[e][i].n < n
    BY <1>0, <1>3, <1>6 DEF RawArrives
  <2>3. TheLink!ReceiveRaw(e, n)
    BY <2>1, <2>2 DEF TheLink!ReceiveRaw
  <2>. QED  BY <2>1, <2>3, LinkEnds DEF TheLink!Next
<1>. QED  BY <1>5, <1>6 DEF Arrives

\* The steps after which no connection is newly open.
LEMMA LinkMoves ==
  ASSUME Inv, Inv', FlowInv, Moves, UNCHANGED <<asked, backlog, sent>>
  PROVE  [TheLink!Next]_(TheLink!vars)
<1>1. \A c : New(c)' <=> New(c)
  BY DEF New, Waits
<1>2. CASE Quiet
  <2>1. ASSUME NEW e \in End, Up(e)' PROVE Up(e)
    <3>1. ~New(e[1])
      BY <1>1, <2>1 DEF Up, New, Inv, ConnectedOnce
    <3>. QED  BY <1>2, <2>1, <3>1 DEF Quiet, QuietFor
  <2>. QED  BY <1>1, <1>2, <2>1, LinkCut DEF Quiet
<1>3. CASE \E e \in End : \E n \in Nat : Arrives(e, n)
  BY <1>3, LinkArrival
<1>4. CASE UNCHANGED <<fd_cell, fd_to_channel_status, out>>
  BY <1>4, LinkSame DEF TheLink!vars
<1>. QED  BY <1>2, <1>3, <1>4 DEF Moves

LEMMA LinkStep ==
  ASSUME Inv, FlowInv, Inv', [Next]_vars
  PROVE  [TheLink!Next]_(TheLink!vars)
<1>. USE DEF kernel, tables, buffers
<1>1. TypeOK /\ TypeOK'
  BY DEF Inv
<1>2. ASSUME NEW c \in Conn, ClientConnect(c) PROVE [TheLink!Next]_(TheLink!vars)
  <2>1. Quiet
    BY <1>1, <1>2, EnvironmentQuiet DEF Environment
  <2>2. \A d \in Conn : New(d)' => New(d)
    <3>1. ASSUME NEW d \in Conn PROVE New(d)' => New(d)
      <4>1. <<d, "client">> \in End /\ <<d, "client">>[1] = d
        BY DEF End, Side
      <4>. QED  BY <2>1, <4>1 DEF Quiet, QuietFor
    <3>. QED  BY <3>1
  <2>. QED  BY <1>2, <2>2, LinkCut DEF ClientConnect, Up, Disconnected
<1>3. ASSUME NEW e \in End, AppClose(e) \/ \E k \in Kinds : AppSend(e, k)
      PROVE  TheLink!Write(e)
  BY <1>1, <1>3, LinkWrite, ConstantsAssumption DEF AppClose, AppSend
<1>4. ASSUME NEW c \in Conn, AcceptConnect(c) PROVE [TheLink!Next]_(TheLink!vars)
  BY <1>4, LinkOpen DEF FlowInv, TheLink!Next
<1>5. ASSUME NEW c \in Conn, AcceptRefused(c) \/ AcceptLeaks(c) \/ AcceptDies(c)
      PROVE  [TheLink!Next]_(TheLink!vars)
  <2>1. UNCHANGED <<sent, out, fd_cell, fd_to_channel_status>>
    BY <1>5 DEF AcceptRefused, AcceptLeaks, AcceptDies, Accepting
  <2>2. \A d \in Conn : New(d)' => New(d)
    <3>1. CASE AcceptRefused(c) \/ AcceptLeaks(c)
      BY <1>1, <3>1, TakenNew DEF AcceptRefused, AcceptLeaks
    <3>2. CASE AcceptDies(c)
      BY <3>2 DEF AcceptDies, Accepting, New, Waits
    <3>. QED  BY <1>5, <3>1, <3>2
  <2>. QED  BY <2>1, <2>2, LinkCut DEF Up, Disconnected
<1>6. ASSUME NEW f \in Fd, do_receive(f) PROVE [TheLink!Next]_(TheLink!vars)
  <2>1. UNCHANGED <<asked, backlog, sent>>
    BY <1>6 DEF do_receive, ReceiveFrame, ReceiveEnd, ReceiveRaw
  <2>. QED  BY <1>1, <1>6, <2>1, ReceiveFlow, LinkMoves
<1>7. CASE Commands
  <2>1. UNCHANGED <<asked, backlog, sent>>
    BY <1>7 DEF Commands, DeliverCmd, Delivery, DequeueDead, DequeueDeliver, Dequeue,
                DeliverTimeout, partition, recover, print_status
  <2>. QED  BY <1>1, <1>7, <2>1, CommandFlow, LinkMoves
<1>8. CASE UNCHANGED vars
  <2>1. UNCHANGED <<asked, backlog, sent, fd_cell, fd_to_channel_status, out>>
    BY <1>8 DEF vars
  <2>. QED  BY <2>1, LinkSame DEF TheLink!vars
<1>9. CASE Environment
  <2>1. \A e \in End : TheLink!Write(e) => TheLink!Next
    BY LinkEnds DEF TheLink!Next
  <2>. QED  BY <1>2, <1>3, <1>9, <2>1 DEF Environment
<1>. QED  BY <1>4, <1>5, <1>6, <1>7, <1>8, <1>9 DEF Next, Epoll, Accept

LEMMA LinkInit == Init => TheLink!Init
<1>. SUFFICES ASSUME Init PROVE TheLink!Init
  OBVIOUS
<1>1. \A c \in Conn : <<c, "client">> \in End
  BY DEF End, Side
<1>2. \A c \in Conn : LinkState(c) = "new"
  BY <1>1 DEF Init, LinkState
<1>3. [e \in End |-> Len(sent[e])] = [e \in End |-> 0] /\ out = [e \in End |-> <<>>]
  BY DEF Init
<1>. QED  BY <1>2, <1>3, LinkEnds DEF TheLink!Init

\* Buffers, deliver commands, partitions, recoveries, failed writes and reused
\* descriptors together give every program a link: each frame once, in order and
\* without gaps until the link is cut, and none after that.
THEOREM LinkRefinement == Spec => ImplementsLink
<1>1. Init => TheLink!Init
  BY LinkInit
<1>2. Inv /\ FlowInv /\ Inv' /\ [Next]_vars => [TheLink!Next]_(TheLink!vars)
  BY LinkStep
<1>. QED  BY <1>1, <1>2, Invariance, FlowInvariance, PTL DEF Spec, ImplementsLink, TheLink!Spec
=============================================================================
