----------------------------- MODULE SenderProofs -----------------------------
(* Theorems about mysyscall's hooks for any threads, sockets, descriptors    *)
(* and messages, and about the loop that receives what they send.            *)
EXTENDS Reception, Recursion, SequenceTheorems, TLAPS

\* No descriptor is open on two sockets.
OneSocketEach ==
  \A s, r \in Sock : fd_of[s] \in Fd /\ fd_of[s] = fd_of[r] => s = r

\* A thread inside connect, accept or a send has its descriptor open.
CallsOpen ==
  \A t \in Thread :
    call[t].at \notin {"outside", "closed"} => \E s \in Sock : fd_of[s] = call[t].fd

\* A descriptor that is open again while a close of it is not over.
OverlapSpoils ==
  \A s \in Sock : fd_of[s] \in Fd /\ Closing(fd_of[s]) => s \in spoiled

\* A header is on its way only to a concerned peer.
HeadersWanted ==
  \A t \in Thread :
    call[t].at \in {"hack", "framed"} => SocketAt(call[t].fd) \in Concerned \cup spoiled

SafetyInv ==
  /\ OneSocketEach /\ CallsOpen /\ OverlapSpoils /\ StaleEntriesGo
  /\ Traced /\ HeadersWanted /\ PlainUntouched

-----------------------------------------------------------------------------
\* The kernel finds the one socket that is open on a descriptor.
LEMMA Lookup ==
  ASSUME OneSocketEach, NEW f \in Fd, NEW s \in Sock, fd_of[s] = f
  PROVE  SocketAt(f) = s
BY DEF OneSocketEach, SocketAt

LEMMA BodyType ==
  ASSUME NEW n \in Nat, NEW k \in Nat
  PROVE  Body(n, k) \in Seq(Unit)
<1>1. \A i \in 1..k : [kind |-> "body", call |-> n, part |-> i] \in Unit
  BY DEF Unit
<1>. QED  BY <1>1, IsASeq DEF Body

LEMMA BodyKind ==
  ASSUME NEW n \in Nat, NEW k \in Nat
  PROVE  \A i \in DOMAIN Body(n, k) : Body(n, k)[i].kind = "body"
BY DEF Body

\* What a thread's call is, by the place it is at.
LEMMA CallCases ==
  ASSUME SenderTypeOK, NEW t \in Thread
  PROVE  /\ call[t] \in Call
         /\ call[t].at \in {"opened", "closed"} => call[t] \in Brief
         /\ call[t].at \in {"sendto", "hack", "framed", "plain"} => call[t] \in Sends
         /\ call[t].at \notin {"outside", "opened", "closed"} => call[t] \in Sends
         /\ call[t].at \notin {"outside"} => call[t].fd \in Fd
<1>1. call[t] \in Call
  BY DEF SenderTypeOK
<1>2. CASE call[t] = Outside
  BY <1>1, <1>2 DEF Outside
<1>3. CASE call[t] \in Brief
  BY <1>1, <1>3 DEF Brief
<1>4. CASE call[t] \in Sends
  BY <1>1, <1>4 DEF Sends
<1>. QED  BY <1>1, <1>2, <1>3, <1>4 DEF Call

LEMMA CallUpdate ==
  ASSUME SenderTypeOK, NEW t \in Thread, NEW c \in Call,
         call' = [call EXCEPT ![t] = c]
  PROVE  /\ call' \in [Thread -> Call]
         /\ call'[t] = c
         /\ \A u \in Thread : u # t => call'[u] = call[u]
BY DEF SenderTypeOK

\* A send goes from one place to the next with its descriptor and message.
LEMMA CallAdvance ==
  ASSUME SenderTypeOK, NEW t \in Thread, call[t] \in Sends,
         NEW p \in {"sendto", "hack", "framed", "plain"}, Advance(t, p)
  PROVE  /\ call' \in [Thread -> Call]
         /\ call'[t] = [call[t] EXCEPT !.at = p]
         /\ call'[t].at = p /\ call'[t].fd = call[t].fd
         /\ \A u \in Thread : u # t => call'[u] = call[u]
<1>. DEFINE c == [call[t] EXCEPT !.at = p]
<1>1. c \in Sends /\ c.at = p /\ c.fd = call[t].fd
  BY DEF Sends
<1>2. call' = [call EXCEPT ![t] = c]
  BY DEF Advance
<1>3. c \in Call
  BY <1>1 DEF Call
<1>. HIDE DEF c
<1>4. call' \in [Thread -> Call] /\ call'[t] = c /\ \A u \in Thread : u # t => call'[u] = call[u]
  BY <1>2, <1>3, CallUpdate
<1>. QED  BY <1>1, <1>4 DEF c

LEMMA CallReturn ==
  ASSUME SenderTypeOK, NEW t \in Thread, Return(t)
  PROVE  /\ call' \in [Thread -> Call]
         /\ call'[t] = Outside
         /\ \A u \in Thread : u # t => call'[u] = call[u]
BY CallUpdate DEF Return, Call

\* What a socket is while a thread is in a call on it.
LEMMA CallSocket ==
  ASSUME SenderTypeOK, OneSocketEach, CallsOpen, NEW t \in Thread,
         call[t].at \notin {"outside", "closed"}
  PROVE  /\ call[t].fd \in Fd
         /\ SocketAt(call[t].fd) \in Sock
         /\ fd_of[SocketAt(call[t].fd)] = call[t].fd
<1>1. call[t].fd \in Fd
  BY CallCases
<1>2. PICK s \in Sock : fd_of[s] = call[t].fd
  BY DEF CallsOpen
<1>. QED  BY <1>1, <1>2, Lookup

\* A header, whole or torn, is a unit.
LEMMA HeaderType ==
  ASSUME NEW n \in Nat, NEW len \in Lens
  PROVE  Header(n, len) \in Unit /\ TornHeaders(n, Lens) \subseteq Unit
<1>1. \A size \in Lens : Header(n, size) \in Unit
  BY DEF Header, Unit
<1>2. Stub(n) \in Unit
  BY DEF Stub, Unit
<1>. QED  BY <1>1, <1>2 DEF TornHeaders

\* What becomes of the stream when a header is sent.
LEMMA HackStep ==
  ASSUME SenderTypeOK, OneSocketEach, CallsOpen, NEW t \in Thread, hack(t),
         NEW s, s = SocketAt(call[t].fd)
  PROVE  /\ call[t] \in Sends /\ call[t].at = "hack"
         /\ s \in Sock /\ spoiled' \in {spoiled, spoiled \cup {s}}
         /\ \/ UNCHANGED stream
            \/ \E unit \in Unit : stream' = [stream EXCEPT ![s] = Append(@, unit)]
         /\ Advance(t, "framed") \/ Return(t)
         /\ UNCHANGED <<fd_map, fd_of, given, sends>>
<1>1. call[t] \in Sends /\ call[t].at = "hack"
  BY CallCases DEF hack
<1>2. s \in Sock
  BY <1>1, CallSocket
<1>3. call[t].n \in Nat /\ call[t].len \in Lens
  BY <1>1 DEF Sends
<1>4. Header(call[t].n, call[t].len) \in Unit /\ TornHeaders(call[t].n, Lens) \subseteq Unit
  BY <1>3, HeaderType
<1>5. \/ /\ stream' = [stream EXCEPT ![s] = Append(@, Header(call[t].n, call[t].len))]
         /\ UNCHANGED spoiled
      \/ /\ \E unit \in TornHeaders(call[t].n, Lens) :
              stream' = [stream EXCEPT ![s] = Append(@, unit)]
         /\ spoiled' = spoiled \cup {s}
      \/ UNCHANGED <<stream, spoiled>>
  BY DEF hack, SendHeader, SendTornHeader
<1>6. \/ UNCHANGED stream
      \/ \E unit \in Unit : stream' = [stream EXCEPT ![s] = Append(@, unit)]
  BY <1>4, <1>5
<1>7. Advance(t, "framed") \/ Return(t)
  BY DEF hack
<1>8. UNCHANGED <<fd_map, fd_of, given, sends>>
  BY DEF hack
<1>. QED  BY <1>1, <1>2, <1>5, <1>6, <1>7, <1>8

-----------------------------------------------------------------------------
\* The types, action by action.
LEMMA HookType ==
  ASSUME SenderTypeOK, OneSocketEach, CallsOpen, NEW t \in Thread, Hook(t)
  PROVE  SenderTypeOK'
<1>. USE SenderAssumption, PlaceAssumption
<1>1. ASSUME NEW s \in Sock, Open(t, s) PROVE SenderTypeOK'
  <2>1. PICK f \in Fd :
          /\ fd_of' = [fd_of EXCEPT ![s] = f]
          /\ call' = [call EXCEPT ![t] = [at |-> "opened", fd |-> f]]
          /\ spoiled' \in {spoiled, spoiled \cup {s}}
          /\ UNCHANGED <<fd_map, stream, given, sends>>
    BY <1>1 DEF Open, Enter
  <2>2. [at |-> "opened", fd |-> f] \in Call
    BY DEF Call, Brief
  <2>3. call' \in [Thread -> Call]
    BY <2>1, <2>2, CallUpdate
  <2>. QED  BY <2>1, <2>3 DEF SenderTypeOK
<1>2. ASSUME add_concerned_fd(t) PROVE SenderTypeOK'
  <2>1. call[t].fd \in Fd
    BY <1>2, CallCases DEF add_concerned_fd
  <2>2. call' \in [Thread -> Call]
    BY <1>2, CallReturn DEF add_concerned_fd
  <2>. QED  BY <1>2, <2>1, <2>2 DEF SenderTypeOK, add_concerned_fd
<1>3. ASSUME close(t) PROVE SenderTypeOK'
  <2>1. PICK s \in Sock :
          /\ fd_of[s] \in Fd
          /\ fd_of' = [fd_of EXCEPT ![s] = Closed]
          /\ call' = [call EXCEPT ![t] = [at |-> "closed", fd |-> fd_of[s]]]
          /\ UNCHANGED <<fd_map, stream, given, sends, spoiled>>
    BY <1>3 DEF close, Enter
  <2>2. [at |-> "closed", fd |-> fd_of[s]] \in Call
    BY <2>1 DEF Call, Brief
  <2>3. call' \in [Thread -> Call]
    BY <2>1, <2>2, CallUpdate
  <2>. QED  BY <2>1, <2>3 DEF SenderTypeOK
<1>4. ASSUME rm_concerned_fd(t) PROVE SenderTypeOK'
  <2>1. call' \in [Thread -> Call]
    BY <1>4, CallReturn DEF rm_concerned_fd
  <2>. QED  BY <1>4, <2>1 DEF SenderTypeOK, rm_concerned_fd
<1>5. ASSUME NEW s \in Sock, NEW p \in {"sendto", "plain"}, BeginSend(t, s, p)
      PROVE  SenderTypeOK'
  <2>1. PICK len \in Lens :
          /\ fd_of[s] \in Fd /\ sends[s] < MaxSends[s]
          /\ sends' = [sends EXCEPT ![s] = @ + 1]
          /\ call' = [call EXCEPT ![t] =
                        [at |-> p, fd |-> fd_of[s], n |-> sends[s] + 1, len |-> len]]
          /\ spoiled' \in {spoiled, spoiled \cup {s}}
          /\ UNCHANGED <<fd_map, fd_of, stream, given>>
    BY <1>5 DEF BeginSend, Enter
  <2>2. sends[s] \in Nat /\ MaxSends[s] \in Nat
    BY DEF SenderTypeOK
  <2>3. [at |-> p, fd |-> fd_of[s], n |-> sends[s] + 1, len |-> len] \in Call
    BY <2>1, <2>2 DEF Call, Sends
  <2>4. sends' \in [Sock -> Nat] /\ \A r \in Sock : sends'[r] <= MaxSends[r]
    BY <2>1, <2>2 DEF SenderTypeOK
  <2>5. call' \in [Thread -> Call]
    BY <2>1, <2>3, CallUpdate
  <2>. QED  BY <2>1, <2>4, <2>5 DEF SenderTypeOK
<1>6. ASSUME is_concerned(t) PROVE SenderTypeOK'
  <2>1. call[t] \in Sends
    BY <1>6, CallCases DEF is_concerned
  <2>2. call' \in [Thread -> Call]
    BY <1>6, <2>1, CallAdvance DEF is_concerned
  <2>. QED  BY <1>6, <2>2 DEF SenderTypeOK, is_concerned
<1>7. ASSUME hack(t) PROVE SenderTypeOK'
  <2>. DEFINE s == SocketAt(call[t].fd)
  <2>1. /\ call[t] \in Sends /\ s \in Sock /\ spoiled' \in {spoiled, spoiled \cup {s}}
        /\ \/ UNCHANGED stream
           \/ \E unit \in Unit : stream' = [stream EXCEPT ![s] = Append(@, unit)]
        /\ Advance(t, "framed") \/ Return(t)
        /\ UNCHANGED <<fd_map, fd_of, given, sends>>
    BY <1>7, HackStep
  <2>. HIDE DEF s
  <2>2. stream' \in [Sock -> Seq(Unit)]
    <3>1. stream \in [Sock -> Seq(Unit)]
      BY DEF SenderTypeOK
    <3>2. \A unit \in Unit : Append(stream[s], unit) \in Seq(Unit)
      BY <2>1, <3>1
    <3>. QED  BY <2>1, <3>1, <3>2
  <2>3. call' \in [Thread -> Call]
    BY <2>1, CallAdvance, CallReturn
  <2>. QED  BY <2>1, <2>2, <2>3 DEF SenderTypeOK
<1>8. ASSUME real_sendto(t) PROVE SenderTypeOK'
  <2>1. call[t] \in Sends /\ call[t].at \in {"framed", "plain"}
    BY <1>8, CallCases DEF real_sendto
  <2>. DEFINE s == SocketAt(call[t].fd)
              b(k) == Body(call[t].n, k)
  <2>2. s \in Sock
    BY <2>1, CallSocket
  <2>3. PICK k \in Taken(s, call[t].len) :
          /\ stream' = [stream EXCEPT ![s] = @ \o b(k)]
          /\ given' = IF k = 0 /\ call[t].len # 0 THEN given
                      ELSE [given EXCEPT ![s] = Append(@, b(k))]
          /\ spoiled' \in {spoiled, spoiled \cup {s}}
    BY <1>8 DEF real_sendto
  <2>4. b(k) \in Seq(Unit)
    <3>1. k \in Nat
      BY <2>1 DEF Taken, Sends
    <3>. QED  BY <2>1, <3>1, BodyType DEF Sends
  <2>. HIDE DEF b, s
  <2>5. stream' \in [Sock -> Seq(Unit)]
    BY <2>2, <2>3, <2>4 DEF SenderTypeOK
  <2>6. given' \in [Sock -> Seq(Seq(Unit))]
    BY <2>2, <2>3, <2>4 DEF SenderTypeOK
  <2>7. spoiled' \subseteq Sock
    BY <2>2, <2>3 DEF SenderTypeOK
  <2>8. call' \in [Thread -> Call]
    BY <1>8, CallReturn DEF real_sendto
  <2>. QED  BY <1>8, <2>5, <2>6, <2>7, <2>8 DEF SenderTypeOK, real_sendto
<1>9. ASSUME write(t) \/ send(t) PROVE SenderTypeOK'
  <2>1. PICK s \in Sock : BeginSend(t, s, "sendto") \/ BeginSend(t, s, "plain")
    BY <1>9 DEF write, send
  <2>. QED  BY <2>1, <1>5
<1>10. ASSUME connect(t) \/ accept(t) PROVE SenderTypeOK'
  BY <1>1, <1>10 DEF connect, accept
<1>. QED  BY <1>2, <1>3, <1>4, <1>6, <1>7, <1>8, <1>9, <1>10 DEF Hook
-----------------------------------------------------------------------------
LEMMA OpenSafe ==
  ASSUME SenderTypeOK, SafetyInv, NEW t \in Thread, NEW s \in Sock, Open(t, s)
  PROVE  SafetyInv'
<1>1. PICK f \in Fd :
        /\ fd_of[s] = Unopened /\ \A r \in Sock : fd_of[r] # f
        /\ fd_of' = [fd_of EXCEPT ![s] = f]
        /\ call[t] = Outside
        /\ call' = [call EXCEPT ![t] = [at |-> "opened", fd |-> f]]
        /\ spoiled' = IF Closing(f) THEN spoiled \cup {s} ELSE spoiled
        /\ UNCHANGED <<fd_map, stream>>
  BY DEF Open, Enter
<1>2. /\ fd_of'[s] = f /\ \A r \in Sock : r # s => fd_of'[r] = fd_of[r]
      /\ fd_of[s] \notin Fd
  BY <1>1, PlaceAssumption DEF SenderTypeOK
<1>3. /\ call'[t].at = "opened" /\ call'[t].fd = f
      /\ \A u \in Thread : u # t => call'[u] = call[u]
      /\ call[t].at = "outside"
  BY <1>1 DEF SenderTypeOK, Outside
<1>4. spoiled \subseteq spoiled'
  BY <1>1
<1>5. \A u \in Thread : call[u].at # "outside" => call[u].fd \in Fd
  BY CallCases
<1>6. /\ \A g \in Fd : Closing(g)' <=> Closing(g)
      /\ \A g \in Fd : Opening(g) => Opening(g)'
      /\ Opening(f)'
  BY <1>3 DEF Closing, Opening
<1>7. OneSocketEach'
  BY <1>1, <1>2 DEF SafetyInv, OneSocketEach
<1>8. CallsOpen'
  BY <1>2, <1>3, <1>5 DEF SafetyInv, CallsOpen
<1>9. OverlapSpoils'
  BY <1>1, <1>2, <1>4, <1>6 DEF SafetyInv, OverlapSpoils
<1>10. StaleEntriesGo'
  <2>. SUFFICES ASSUME NEW g \in fd_map, ~Closing(g)'
                PROVE  \E r \in Concerned : fd_of'[r] = g
    BY <1>1 DEF StaleEntriesGo
  <2>1. g \in Fd /\ ~Closing(g)
    BY <1>6 DEF SenderTypeOK
  <2>2. PICK r \in Concerned : fd_of[r] = g
    BY <2>1 DEF SafetyInv, StaleEntriesGo
  <2>. QED  BY <1>2, <2>1, <2>2, SenderAssumption
<1>11. Traced'
  BY <1>1, <1>2, <1>4, <1>6 DEF SafetyInv, Traced
<1>12. HeadersWanted'
  <2>. SUFFICES ASSUME NEW u \in Thread, call'[u].at \in {"hack", "framed"}
                PROVE  SocketAt(call[u].fd)' \in Concerned \cup spoiled' /\ u # t
    BY <1>3 DEF HeadersWanted
  <2>1. u # t /\ call[u].at \in {"hack", "framed"}
    BY <1>3
  <2>. DEFINE r == SocketAt(call[u].fd)
  <2>2. r \in Sock /\ fd_of[r] = call[u].fd /\ call[u].fd \in Fd
    BY <2>1, CallSocket DEF SafetyInv
  <2>3. fd_of'[r] = call[u].fd
    BY <1>2, <2>2
  <2>4. SocketAt(call[u].fd)' = r
    BY <1>3, <1>7, <2>1, <2>2, <2>3 DEF OneSocketEach, SocketAt
  <2>. QED  BY <1>4, <2>1, <2>4 DEF SafetyInv, HeadersWanted
<1>13. PlainUntouched'
  BY <1>1, <1>4 DEF SafetyInv, PlainUntouched
<1>. QED  BY <1>7, <1>8, <1>9, <1>10, <1>11, <1>12, <1>13 DEF SafetyInv

LEMMA AddSafe ==
  ASSUME SenderTypeOK, SafetyInv, NEW t \in Thread, add_concerned_fd(t)
  PROVE  SafetyInv'
<1>. DEFINE f == call[t].fd
            s == SocketAt(f)
<1>1. s \in Sock /\ fd_of[s] = f /\ f \in Fd
  BY CallSocket DEF SafetyInv, add_concerned_fd
<1>2. /\ fd_map' = IF s \in Concerned THEN fd_map \cup {f} ELSE fd_map
      /\ UNCHANGED <<fd_of, stream, spoiled>>
  BY DEF add_concerned_fd
<1>3. call'[t] = Outside /\ \A u \in Thread : u # t => call'[u] = call[u]
  BY CallReturn DEF add_concerned_fd
<1>4. call[t].at = "opened" /\ call'[t].at = "outside"
  BY <1>3 DEF add_concerned_fd, Outside
<1>. HIDE DEF f, s
<1>5. \A g \in Fd : Closing(g)' <=> Closing(g)
  BY <1>3, <1>4 DEF Closing
<1>6. \A g \in Fd : g # f /\ Opening(g) => Opening(g)'
  BY <1>3, <1>4 DEF Opening, f
<1>7. OneSocketEach' /\ OverlapSpoils' /\ PlainUntouched'
  BY <1>2, <1>5 DEF SafetyInv, OneSocketEach, OverlapSpoils, PlainUntouched
<1>8. CallsOpen'
  BY <1>2, <1>3, <1>4 DEF SafetyInv, CallsOpen
<1>9. StaleEntriesGo'
  BY <1>1, <1>2, <1>5 DEF SafetyInv, StaleEntriesGo, SenderTypeOK
<1>10. Traced'
  <2>. SUFFICES ASSUME NEW r \in Concerned \ spoiled', fd_of'[r] \in Fd,
                       ~Opening(fd_of[r])'
                PROVE  fd_of'[r] \in fd_map'
    BY <1>2 DEF Traced
  <2>1. CASE fd_of[r] = f
    <3>1. r = s
      BY <2>1, <1>1, SenderAssumption DEF SafetyInv, OneSocketEach
    <3>. QED  BY <3>1, <2>1, <1>2
  <2>2. CASE fd_of[r] # f
    BY <2>2, <1>2, <1>6 DEF SafetyInv, Traced
  <2>. QED  BY <2>1, <2>2
<1>11. HeadersWanted'
  BY <1>2, <1>3, <1>4 DEF SafetyInv, HeadersWanted, SocketAt
<1>. QED  BY <1>7, <1>8, <1>9, <1>10, <1>11 DEF SafetyInv

LEMMA CloseSafe ==
  ASSUME SenderTypeOK, SafetyInv, NEW t \in Thread, close(t)
  PROVE  SafetyInv'
<1>1. PICK s \in Sock, f \in Fd :
        /\ fd_of[s] = f /\ ~Opening(f) /\ ~Sending(f)
        /\ fd_of' = [fd_of EXCEPT ![s] = Closed]
        /\ call[t] = Outside
        /\ call' = [call EXCEPT ![t] = [at |-> "closed", fd |-> f]]
        /\ UNCHANGED <<fd_map, stream, spoiled>>
  BY DEF close, Enter
<1>2. /\ fd_of'[s] = Closed /\ \A r \in Sock : r # s => fd_of'[r] = fd_of[r]
      /\ Closed \notin Fd
  BY <1>1, PlaceAssumption DEF SenderTypeOK
<1>3. /\ call'[t].at = "closed" /\ call'[t].fd = f
      /\ \A u \in Thread : u # t => call'[u] = call[u]
      /\ call[t].at = "outside"
  BY <1>1 DEF SenderTypeOK, Outside
<1>4. \A r \in Sock : r # s => fd_of[r] # f
  BY <1>1 DEF SafetyInv, OneSocketEach
<1>5. /\ Closing(f)'
      /\ \A g : Closing(g) => Closing(g)'
      /\ \A g : g # f /\ Closing(g)' => Closing(g)
      /\ \A g : Opening(g)' <=> Opening(g)
  BY <1>3 DEF Closing, Opening
<1>6. \A u \in Thread : call[u].at \notin {"outside", "closed"} => call[u].fd # f
  BY <1>1 DEF Opening, Sending
<1>7. OneSocketEach'
  BY <1>2 DEF SafetyInv, OneSocketEach
<1>8. CallsOpen'
  BY <1>1, <1>2, <1>3, <1>6 DEF SafetyInv, CallsOpen
<1>9. OverlapSpoils'
  BY <1>1, <1>2, <1>4, <1>5 DEF SafetyInv, OverlapSpoils
<1>10. StaleEntriesGo'
  <2>. SUFFICES ASSUME NEW g \in fd_map, ~Closing(g)'
                PROVE  \E r \in Concerned : fd_of'[r] = g
    BY <1>1 DEF StaleEntriesGo
  <2>1. PICK r \in Concerned : fd_of[r] = g
    BY <1>5 DEF SafetyInv, StaleEntriesGo
  <2>2. r # s /\ r \in Sock
    BY <1>1, <2>1, <1>5, SenderAssumption
  <2>. QED  BY <2>1, <2>2, <1>2
<1>11. Traced'
  BY <1>1, <1>2, <1>5, SenderAssumption DEF SafetyInv, Traced
<1>12. HeadersWanted'
  <2>. SUFFICES ASSUME NEW u \in Thread, call'[u].at \in {"hack", "framed"}
                PROVE  SocketAt(call[u].fd)' \in Concerned \cup spoiled
    BY <1>1 DEF HeadersWanted
  <2>1. u # t /\ call[u].at \in {"hack", "framed"} /\ call'[u] = call[u]
    BY <1>3
  <2>. DEFINE r == SocketAt(call[u].fd)
  <2>2. r \in Sock /\ fd_of[r] = call[u].fd /\ call[u].fd \in Fd
    BY <2>1, CallSocket DEF SafetyInv
  <2>3. fd_of'[r] = call[u].fd
    BY <1>1, <1>2, <1>6, <2>1, <2>2
  <2>4. SocketAt(call[u].fd)' = r
    BY <1>7, <2>1, <2>2, <2>3 DEF OneSocketEach, SocketAt
  <2>. QED  BY <2>1, <2>4 DEF SafetyInv, HeadersWanted
<1>13. PlainUntouched'
  BY <1>1 DEF SafetyInv, PlainUntouched
<1>. QED  BY <1>7, <1>8, <1>9, <1>10, <1>11, <1>12, <1>13 DEF SafetyInv

LEMMA RmSafe ==
  ASSUME SenderTypeOK, SafetyInv, NEW t \in Thread, rm_concerned_fd(t)
  PROVE  SafetyInv'
<1>. DEFINE f == call[t].fd
<1>1. fd_map' = fd_map \ {f} /\ UNCHANGED <<fd_of, stream, spoiled>>
  BY DEF rm_concerned_fd
<1>2. call'[t] = Outside /\ \A u \in Thread : u # t => call'[u] = call[u]
  BY CallReturn DEF rm_concerned_fd
<1>3. call[t].at = "closed" /\ call'[t].at = "outside" /\ Closing(f)
  BY <1>2 DEF rm_concerned_fd, Outside, Closing
<1>4. /\ \A g : g # f /\ Closing(g) => Closing(g)'
      /\ \A g : Closing(g)' => Closing(g)
      /\ \A g : Opening(g)' <=> Opening(g)
  BY <1>2, <1>3 DEF Closing, Opening
<1>5. OneSocketEach' /\ OverlapSpoils' /\ PlainUntouched'
  BY <1>1, <1>4 DEF SafetyInv, OneSocketEach, OverlapSpoils, PlainUntouched
<1>6. CallsOpen'
  BY <1>1, <1>2, <1>3 DEF SafetyInv, CallsOpen
<1>7. StaleEntriesGo'
  BY <1>1, <1>4 DEF SafetyInv, StaleEntriesGo
<1>8. Traced'
  <2>. SUFFICES ASSUME NEW r \in Concerned \ spoiled, fd_of[r] \in Fd, ~Opening(fd_of[r])
                PROVE  fd_of[r] \in fd_map /\ fd_of[r] # f
    BY <1>1, <1>4 DEF Traced
  <2>. QED  BY <1>3, SenderAssumption DEF SafetyInv, Traced, OverlapSpoils
<1>9. HeadersWanted'
  BY <1>1, <1>2, <1>3 DEF SafetyInv, HeadersWanted, SocketAt
<1>. QED  BY <1>5, <1>6, <1>7, <1>8, <1>9 DEF SafetyInv

\* The descriptor of an unspoiled connection to anyone else has no entry.
LEMMA PlainNotEntered ==
  ASSUME SenderTypeOK, SafetyInv, NEW s \in Sock \ (Concerned \cup spoiled),
         fd_of[s] \in Fd
  PROVE  fd_of[s] \notin fd_map
BY SenderAssumption DEF SafetyInv, StaleEntriesGo, OverlapSpoils, OneSocketEach

LEMMA BeginSafe ==
  ASSUME SenderTypeOK, SafetyInv, NEW t \in Thread, NEW s \in Sock,
         NEW p \in {"sendto", "plain"}, BeginSend(t, s, p)
  PROVE  SafetyInv'
<1>1. PICK len \in Lens :
        /\ fd_of[s] \in Fd /\ call[t] = Outside
        /\ call' = [call EXCEPT ![t] =
                      [at |-> p, fd |-> fd_of[s], n |-> sends[s] + 1, len |-> len]]
        /\ spoiled' \in {spoiled, spoiled \cup {s}}
        /\ UNCHANGED <<fd_map, fd_of, stream>>
  BY DEF BeginSend, Enter
<1>2. /\ call'[t].at = p /\ call'[t].fd = fd_of[s]
      /\ \A u \in Thread : u # t => call'[u] = call[u]
      /\ call[t].at = "outside"
  BY <1>1 DEF SenderTypeOK, Outside
<1>3. spoiled \subseteq spoiled'
  BY <1>1
<1>4. \A g : (Closing(g)' <=> Closing(g)) /\ (Opening(g)' <=> Opening(g))
  BY <1>2 DEF Closing, Opening
<1>5. OneSocketEach' /\ OverlapSpoils' /\ StaleEntriesGo' /\ Traced' /\ PlainUntouched'
  BY <1>1, <1>3, <1>4
     DEF SafetyInv, OneSocketEach, OverlapSpoils, StaleEntriesGo, Traced, PlainUntouched
<1>6. CallsOpen'
  BY <1>1, <1>2 DEF SafetyInv, CallsOpen
<1>7. HeadersWanted'
  BY <1>1, <1>2, <1>3 DEF SafetyInv, HeadersWanted, SocketAt
<1>. QED  BY <1>5, <1>6, <1>7 DEF SafetyInv

LEMMA CheckSafe ==
  ASSUME SenderTypeOK, SafetyInv, NEW t \in Thread, is_concerned(t)
  PROVE  SafetyInv'
<1>. DEFINE f == call[t].fd
            p == IF f \in fd_map THEN "hack" ELSE "plain"
<1>1. call[t] \in Sends /\ call[t].at = "sendto" /\ f \in Fd
  BY CallCases DEF is_concerned
<1>2. Advance(t, p) /\ UNCHANGED <<fd_map, fd_of, stream, spoiled>>
  BY DEF is_concerned
<1>3. /\ call'[t].at = p /\ call'[t].fd = f
      /\ \A u \in Thread : u # t => call'[u] = call[u]
  BY <1>1, <1>2, CallAdvance
<1>4. \A g : (Closing(g)' <=> Closing(g)) /\ (Opening(g)' <=> Opening(g))
  BY <1>1, <1>3 DEF Closing, Opening
<1>5. OneSocketEach' /\ OverlapSpoils' /\ StaleEntriesGo' /\ Traced' /\ PlainUntouched'
  BY <1>2, <1>4
     DEF SafetyInv, OneSocketEach, OverlapSpoils, StaleEntriesGo, Traced, PlainUntouched
<1>6. CallsOpen'
  BY <1>1, <1>2, <1>3 DEF SafetyInv, CallsOpen
<1>7. SocketAt(f) \in Sock /\ fd_of[SocketAt(f)] = f
  BY <1>1, CallSocket DEF SafetyInv
<1>8. p = "hack" => SocketAt(f) \in Concerned \cup spoiled
  BY <1>1, <1>7, PlainNotEntered
<1>9. HeadersWanted'
  <2>. SUFFICES ASSUME NEW u \in Thread, call'[u].at \in {"hack", "framed"}
                PROVE  SocketAt(call[u].fd)' \in Concerned \cup spoiled'
    BY DEF HeadersWanted
  <2>1. call'[u].fd = call[u].fd
    BY <1>3
  <2>2. SocketAt(call[u].fd)' = SocketAt(call[u].fd)
    BY <1>2, <2>1 DEF SocketAt
  <2>3. CASE u = t
    BY <1>2, <1>3, <1>8, <2>2, <2>3
  <2>4. CASE u # t
    <3>1. call[u].at \in {"hack", "framed"}
      BY <1>3, <2>4
    <3>2. SocketAt(call[u].fd) \in Concerned \cup spoiled
      BY <3>1 DEF SafetyInv, HeadersWanted
    <3>. QED  BY <1>2, <2>2, <3>2
  <2>. QED  BY <2>3, <2>4
<1>. QED  BY <1>5, <1>6, <1>9 DEF SafetyInv

LEMMA HackSafe ==
  ASSUME SenderTypeOK, SafetyInv, NEW t \in Thread, hack(t)
  PROVE  SafetyInv'
<1>. DEFINE s == SocketAt(call[t].fd)
<1>1. /\ call[t] \in Sends /\ call[t].at = "hack" /\ s \in Sock
      /\ \/ UNCHANGED stream
         \/ \E unit \in Unit : stream' = [stream EXCEPT ![s] = Append(@, unit)]
  BY HackStep DEF SafetyInv
<1>2. /\ Advance(t, "framed") \/ Return(t)
      /\ UNCHANGED <<fd_map, fd_of>> /\ spoiled \subseteq spoiled'
  BY HackStep DEF SafetyInv
<1>3. /\ \/ call'[t].at = "framed" /\ call'[t].fd = call[t].fd
         \/ call'[t].at = "outside"
      /\ \A u \in Thread : u # t => call'[u] = call[u]
  <2>1. CASE Advance(t, "framed")
    BY <1>1, <2>1, CallAdvance
  <2>2. CASE Return(t)
    BY <2>2, CallReturn DEF Outside
  <2>. QED  BY <1>2, <2>1, <2>2
<1>4. \A g : (Closing(g)' <=> Closing(g)) /\ (Opening(g)' <=> Opening(g))
  BY <1>1, <1>3 DEF Closing, Opening
<1>5. OneSocketEach' /\ OverlapSpoils' /\ StaleEntriesGo' /\ Traced'
  BY <1>2, <1>4
     DEF SafetyInv, OneSocketEach, OverlapSpoils, StaleEntriesGo, Traced
<1>6. CallsOpen'
  BY <1>1, <1>2, <1>3 DEF SafetyInv, CallsOpen
<1>7. HeadersWanted'
  <2>1. \A g : SocketAt(g)' = SocketAt(g)
    BY <1>2 DEF SocketAt
  <2>2. \A u \in Thread : call'[u].at \in {"hack", "framed"} =>
          call[u].at \in {"hack", "framed"} /\ call'[u].fd = call[u].fd
    BY <1>1, <1>3
  <2>. QED  BY <1>2, <2>1, <2>2 DEF SafetyInv, HeadersWanted
<1>8. PlainUntouched'
  <2>1. s \in Concerned \cup spoiled
    BY <1>1 DEF SafetyInv, HeadersWanted
  <2>2. \A r \in Sock : r # s => stream'[r] = stream[r]
    <3>. HIDE DEF s
    <3>. QED  BY <1>1 DEF SenderTypeOK
  <2>. QED  BY <1>2, <2>1, <2>2 DEF SafetyInv, PlainUntouched
<1>. QED  BY <1>5, <1>6, <1>7, <1>8 DEF SafetyInv

LEMMA RealSafe ==
  ASSUME SenderTypeOK, SafetyInv, NEW t \in Thread, real_sendto(t)
  PROVE  SafetyInv'
<1>. DEFINE s == SocketAt(call[t].fd)
            b(k) == Body(call[t].n, k)
<1>1. call[t] \in Sends /\ call[t].at \in {"framed", "plain"} /\ s \in Sock
  BY CallCases, CallSocket DEF real_sendto, SafetyInv
<1>2. PICK k \in Taken(s, call[t].len) :
        /\ stream' = [stream EXCEPT ![s] = @ \o b(k)]
        /\ spoiled' \in {spoiled, spoiled \cup {s}}
  BY DEF real_sendto
<1>3. UNCHANGED <<fd_map, fd_of>>
  BY DEF real_sendto
<1>4. call'[t].at = "outside" /\ \A u \in Thread : u # t => call'[u] = call[u]
  BY CallReturn DEF real_sendto, Outside
<1>5. spoiled \subseteq spoiled'
  BY <1>2
<1>6. \A g : (Closing(g)' <=> Closing(g)) /\ (Opening(g)' <=> Opening(g))
  BY <1>1, <1>4 DEF Closing, Opening
<1>7. OneSocketEach' /\ OverlapSpoils' /\ StaleEntriesGo' /\ Traced'
  BY <1>3, <1>5, <1>6
     DEF SafetyInv, OneSocketEach, OverlapSpoils, StaleEntriesGo, Traced
<1>8. CallsOpen'
  BY <1>3, <1>4 DEF SafetyInv, CallsOpen
<1>9. HeadersWanted'
  <2>. SUFFICES ASSUME NEW u \in Thread, call'[u].at \in {"hack", "framed"}
                PROVE  SocketAt(call[u].fd)' \in Concerned \cup spoiled'
    BY DEF HeadersWanted
  <2>1. call'[u] = call[u]
    BY <1>4
  <2>2. SocketAt(call[u].fd)' = SocketAt(call[u].fd)
    BY <1>3, <2>1 DEF SocketAt
  <2>3. SocketAt(call[u].fd) \in Concerned \cup spoiled
    BY <2>1 DEF SafetyInv, HeadersWanted
  <2>. QED  BY <1>5, <2>2, <2>3
<1>10. PlainUntouched'
  <2>1. k \in Nat /\ call[t].n \in Nat
    <3>1. call[t].len \in Nat /\ call[t].n \in Nat
      BY <1>1, SenderAssumption DEF Sends
    <3>. HIDE DEF s
    <3>. QED  BY <3>1 DEF Taken
  <2>2. /\ b(k) \in Seq(Unit) /\ stream[s] \in Seq(Unit)
        /\ \A i \in DOMAIN b(k) : b(k)[i].kind = "body"
    BY <1>1, <2>1, BodyType, BodyKind DEF SenderTypeOK
  <2>. HIDE DEF b, s
  <2>3. /\ stream'[s] = stream[s] \o b(k)
        /\ \A r \in Sock : r # s => stream'[r] = stream[r]
    BY <1>1, <1>2 DEF SenderTypeOK
  <2>4. ASSUME \A i \in DOMAIN stream[s] : stream[s][i].kind = "body"
        PROVE  \A i \in DOMAIN stream'[s] : stream'[s][i].kind = "body"
    <3>. SUFFICES ASSUME NEW i \in DOMAIN stream'[s] PROVE stream'[s][i].kind = "body"
      OBVIOUS
    <3>1. stream'[s][i] \in {stream[s][j] : j \in DOMAIN stream[s]}
                             \cup {b(k)[j] : j \in DOMAIN b(k)}
      <4>1. i \in 1..(Len(stream[s]) + Len(b(k)))
        BY <2>2, <2>3
      <4>2. CASE i <= Len(stream[s])
        BY <2>2, <2>3, <4>1, <4>2
      <4>3. CASE i > Len(stream[s])
        <5>1. i - Len(stream[s]) \in DOMAIN b(k)
          BY <2>2, <4>1, <4>3
        <5>2. stream'[s][i] = b(k)[i - Len(stream[s])]
          BY <2>2, <2>3, <4>1, <4>3
        <5>. QED  BY <5>1, <5>2
      <4>. QED  BY <4>1, <4>2, <4>3, <2>2
    <3>. QED  BY <3>1, <2>2, <2>4
  <2>. QED  BY <1>5, <2>3, <2>4, <1>1 DEF SafetyInv, PlainUntouched
<1>. QED  BY <1>7, <1>8, <1>9, <1>10 DEF SafetyInv

-----------------------------------------------------------------------------
LEMMA InitSafe ==
  SenderInit => SenderTypeOK /\ SafetyInv
<1>. SUFFICES ASSUME SenderInit PROVE SenderTypeOK /\ SafetyInv
  OBVIOUS
<1>1. SenderTypeOK
  BY SenderAssumption DEF SenderInit, SenderTypeOK, Call
<1>2. \A s \in Sock : fd_of[s] \notin Fd
  BY PlaceAssumption DEF SenderInit
<1>3. \A t \in Thread : call[t].at = "outside"
  BY DEF SenderInit, Outside
<1>4. \A s \in Sock : DOMAIN stream[s] = {}
  BY DEF SenderInit
<1>5. SafetyInv
  BY <1>2, <1>3, <1>4, SenderAssumption
     DEF SafetyInv, OneSocketEach, CallsOpen, OverlapSpoils, StaleEntriesGo, Traced,
         HeadersWanted, PlainUntouched, SenderInit
<1>. QED  BY <1>1, <1>5

LEMMA NextSafe ==
  SenderTypeOK /\ SafetyInv /\ [SenderNext]_senderVars
    => (SenderTypeOK /\ SafetyInv)'
<1>. SUFFICES ASSUME SenderTypeOK, SafetyInv, [SenderNext]_senderVars
              PROVE  (SenderTypeOK /\ SafetyInv)'
  OBVIOUS
<1>1. CASE UNCHANGED senderVars
  BY <1>1 DEF senderVars, SenderTypeOK, SafetyInv, OneSocketEach, CallsOpen,
              OverlapSpoils, StaleEntriesGo, Traced, HeadersWanted, PlainUntouched,
              SocketAt, Closing, Opening
<1>2. ASSUME NEW t \in Thread, Hook(t)
      PROVE  (SenderTypeOK /\ SafetyInv)'
  <2>1. SenderTypeOK'
    BY <1>2, HookType DEF SafetyInv
  <2>2. CASE connect(t) \/ accept(t)
    <3>1. PICK s \in Sock : Open(t, s)
      BY <2>2, SenderAssumption DEF connect, accept
    <3>. QED  BY <2>1, <3>1, OpenSafe
  <2>3. CASE write(t) \/ send(t)
    <3>1. PICK s \in Sock : BeginSend(t, s, "sendto") \/ BeginSend(t, s, "plain")
      BY <2>3 DEF write, send
    <3>. QED  BY <2>1, <3>1, BeginSafe
  <2>. QED  BY <1>2, <2>1, <2>2, <2>3, AddSafe, CloseSafe, RmSafe, CheckSafe,
               HackSafe, RealSafe DEF Hook
<1>. QED  BY <1>1, <1>2 DEF SenderNext

LEMMA HooksSafe ==
  SenderSpec => [](SenderTypeOK /\ SafetyInv)
BY InitSafe, NextSafe, PTL DEF SenderSpec

\* Every variable of the hooks keeps its type.
THEOREM SenderTypeCorrect == SenderSpec => []SenderTypeOK
BY HooksSafe, PTL

\* close leaves no entry behind, whatever the threads do (myclose.c).
THEOREM NoStaleEntry == SenderSpec => []StaleEntriesGo
<1>1. SafetyInv => StaleEntriesGo
  BY DEF SafetyInv
<1>. QED  BY <1>1, HooksSafe, PTL

\* An open connection to a concerned peer keeps its entry, unless it was opened
\* inside another thread's close of its descriptor (config.cpp, myclose.c).
THEOREM EntriesTraced == SenderSpec => []Traced
<1>1. SafetyInv => Traced
  BY DEF SafetyInv
<1>. QED  BY <1>1, HooksSafe, PTL

\* A connection to a peer of no concern carries no header (mysendto.c).
THEOREM PlainPeers == SenderSpec => []PlainUntouched
<1>1. SafetyInv => PlainUntouched
  BY DEF SafetyInv
<1>. QED  BY <1>1, HooksSafe, PTL

-----------------------------------------------------------------------------
(* The receiver: what it has cut off a stream when a unit more comes.        *)

\* Where the loop gets in a stream it finds in whole headers and in time.
Cut(stm) ==
  LET After[n \in 0..Len(stm)] ==
        IF n = 0 THEN Expecting(<<>>) ELSE Take(After[n - 1], stm[n])
  IN  After[Len(stm)]

\* What the loop of do_receive goes through.
Piece == Unit \cup {[kind |-> "raw"]}
Place == [at : {"header", "body", "raw"}, size : Nat, part : Seq(Piece), msgs : Seq(Seq(Piece))]

\* Taking a unit leads from one such place to another.
LEMMA TakeStays ==
  ASSUME NEW c \in Place, NEW u \in Unit
  PROVE  Take(c, u) \in Place
<1>1. u \in Piece /\ Raw \in Seq(Piece) /\ <<>> \in Seq(Piece)
  BY DEF Piece, Raw
<1>2. ASSUME NEW msgs \in Seq(Seq(Piece)), NEW part \in Seq(Piece), NEW size \in Nat
      PROVE  Filling(size, part, msgs) \in Place /\ Passing(Append(msgs, part)) \in Place
  <2>1. Append(msgs, part) \in Seq(Seq(Piece))
    OBVIOUS
  <2> QED BY <1>1, <2>1 DEF Filling, Expecting, Passing, Place
<1>3. CASE c.at = "raw"
  BY <1>3 DEF Take
<1>4. CASE c.at = "body"
  <2>1. Append(c.part, u) \in Seq(Piece) /\ c.size \in Nat /\ c.msgs \in Seq(Seq(Piece))
    BY <1>1 DEF Place
  <2>2. Take(c, u) = Filling(c.size, Append(c.part, u), c.msgs)
    BY <1>4 DEF Take
  <2> QED BY <1>2, <2>1, <2>2
<1>5. CASE c.at = "header"
  <2>1. c.msgs \in Seq(Seq(Piece))
    BY DEF Place
  <2>2. CASE u.kind = "header"
    <3>1. u.size \in Nat
      BY <2>2, SenderAssumption DEF Unit
    <3>2. Take(c, u) = Filling(u.size, <<>>, c.msgs)
      BY <1>5, <2>2 DEF Take
    <3> QED BY <1>1, <1>2, <2>1, <3>1, <3>2
  <2>3. CASE u.kind # "header"
    <3>1. Take(c, u) = Passing(Append(c.msgs, Raw))
      BY <1>5, <2>3 DEF Take
    <3>2. 0 \in Nat
      OBVIOUS
    <3> QED BY <1>1, <1>2, <2>1, <3>1, <3>2
  <2> QED BY <2>2, <2>3
<1> QED BY <1>3, <1>4, <1>5 DEF Place

\* The recursion behind Cut, as a function from the lengths of prefixes.
Scans(stm, u) == u[0] = Expecting(<<>>) /\ \A n \in 1..Len(stm) : u[n] = Take(u[n - 1], stm[n])

\* Cut takes its value from a function that meets the equation.
LEMMA CutScanned ==
  ASSUME NEW stm \in Seq(Unit)
  PROVE  \E u : Scans(stm, u) /\ Cut(stm) = u[Len(stm)]
<1> DEFINE len == Len(stm)
           step == [n \in 1..len |-> [c \in Place |-> Take(c, stm[n])]]
           Meets(u) == u = [n \in 0..len |-> IF n = 0 THEN Expecting(<<>>) ELSE Take(u[n - 1], stm[n])]
<1>1. len \in Nat /\ Expecting(<<>>) \in Place
  BY DEF Expecting, Place
<1>2. step \in [1..len -> [Place -> Place]]
  BY TakeStays
<1>3. PICK f \in [0..len -> Place] : Recursive(f, len, Expecting(<<>>), step)
  <2> HIDE DEF step
  <2> QED BY <1>1, <1>2, RecursionExists
<1>4. Meets(f)
  <2>1. f = [n \in 0..len |-> f[n]]
    BY <1>3
  <2>2. ASSUME NEW n \in 0..len
        PROVE  f[n] = IF n = 0 THEN Expecting(<<>>) ELSE Take(f[n - 1], stm[n])
    <3>1. CASE n = 0
      BY <1>3, <3>1 DEF Recursive
    <3>2. CASE n # 0
      <4>1. n \in 1..len /\ n - 1 \in 0..len
        BY <1>1, <3>2
      <4>2. f[n] = step[n][f[n - 1]]
        <5> HIDE DEF step
        <5> QED BY <1>3, <3>2 DEF Recursive
      <4> QED BY <1>3, <3>2, <4>1, <4>2
    <3> QED BY <3>1, <3>2
  <2> HIDE DEF len
  <2> QED BY <2>1, <2>2, Zenon
<1>5. Cut(stm) = (CHOOSE u : Meets(u))[len]
  BY Zenon DEF Cut
<1> DEFINE u == CHOOSE v : Meets(v)
<1>6. Meets(u)
  <2> HIDE DEF Meets
  <2> QED BY <1>4, Zenon
<1>7. Scans(stm, u)
  <2> HIDE DEF u
  <2>1. \A n \in 1..len : n \in 0..len /\ n # 0
    BY <1>1
  <2> QED BY <1>1, <1>6, <2>1 DEF Scans
<1> QED BY <1>5, <1>7

\* A unit more is one turn of the loop more.
LEMMA CutGrows ==
  ASSUME NEW stm \in Seq(Unit), NEW unit \in Unit
  PROVE  Cut(Append(stm, unit)) = Take(Cut(stm), unit)
<1> DEFINE more == Append(stm, unit)
           n == Len(stm)
<1>1. /\ more \in Seq(Unit) /\ Len(more) = n + 1 /\ n \in Nat
      /\ \A i \in 1..n : more[i] = stm[i]
      /\ more[n + 1] = unit
  OBVIOUS
<1> HIDE DEF more, n
<1>2. PICK u : Scans(stm, u) /\ Cut(stm) = u[n]
  BY CutScanned DEF n
<1>3. PICK v : Scans(more, v) /\ Cut(more) = v[n + 1]
  BY <1>1, CutScanned
<1> DEFINE T == {i \in 0..n : v[i] = u[i]}
<1>4. 0..n \subseteq T
  <2>1. 0 \in T
    BY <1>1, <1>2, <1>3 DEF Scans
  <2>2. ASSUME NEW i \in 0..n - 1, i \in T PROVE i + 1 \in T
    <3>1. i + 1 \in 1..n /\ i + 1 \in 1..n + 1 /\ i + 1 \in 0..n /\ (i + 1) - 1 = i
      BY <1>1
    <3>2. v[i + 1] = Take(v[i], more[i + 1]) /\ more[i + 1] = stm[i + 1]
      BY <1>1, <1>3, <3>1 DEF Scans
    <3>3. u[i + 1] = Take(u[i], stm[i + 1])
      BY <1>2, <3>1 DEF Scans, n
    <3> QED BY <2>2, <3>1, <3>2, <3>3
  <2> HIDE DEF T
  <2>3. 0 \in Int /\ n \in Int
    BY <1>1
  <2> QED BY <2>1, <2>2, <2>3, Induction
<1>5. v[n] = Cut(stm)
  BY <1>1, <1>2, <1>4
<1>6. n + 1 \in 1..n + 1 /\ (n + 1) - 1 = n
  BY <1>1
<1>7. v[n + 1] = Take(v[n], unit)
  BY <1>1, <1>3, <1>6 DEF Scans
<1> QED BY <1>3, <1>5, <1>7 DEF more

\* Before anything has come.
LEMMA CutNothing == Cut(<<>>) = Expecting(<<>>)
<1>1. <<>> \in Seq(Unit) /\ Len(<<>>) = 0
  OBVIOUS
<1> QED BY <1>1, CutScanned DEF Scans

\* A header comes.
LEMMA CutHeader ==
  ASSUME NEW stm \in Seq(Unit), NEW msgs, NEW n \in Nat, NEW len \in Lens,
         Cut(stm) = Expecting(msgs)
  PROVE  Cut(Append(stm, Header(n, len))) = Filling(len, <<>>, msgs)
<1>1. Header(n, len) \in Unit /\ Header(n, len).kind = "header" /\ Header(n, len).size = len
  BY DEF Header, Unit
<1>2. Cut(Append(stm, Header(n, len))) = Take(Expecting(msgs), Header(n, len))
  BY <1>1, CutGrows
<1>3. Expecting(msgs).at = "header" /\ Expecting(msgs).msgs = msgs
  BY DEF Expecting
<1> QED BY <1>1, <1>2, <1>3 DEF Take

\* The whole of the message that was announced.
LEMMA CutBody ==
  ASSUME NEW stm \in Seq(Unit), NEW msgs, NEW n \in Nat, NEW len \in Lens,
         Cut(stm) = Filling(len, <<>>, msgs)
  PROVE  Cut(stm \o Body(n, len)) = Expecting(Append(msgs, Body(n, len)))
<1>0. len \in Nat
  BY SenderAssumption
<1> DEFINE Upto(k) == [at |-> "body", size |-> len, part |-> Body(n, k), msgs |-> msgs]
           unit(k) == [kind |-> "body", call |-> n, part |-> k]
<1>1. ASSUME NEW k \in Nat
      PROVE  /\ stm \o Body(n, k) \in Seq(Unit)
             /\ stm \o Body(n, k + 1) = Append(stm \o Body(n, k), unit(k + 1))
             /\ Body(n, k + 1) = Append(Body(n, k), unit(k + 1))
             /\ Len(Body(n, k)) = k
  <2>0. k + 1 \in Nat
    OBVIOUS
  <2>1. Body(n, k) \in Seq(Unit) /\ Body(n, k + 1) \in Seq(Unit) /\ unit(k + 1) \in Unit
    <3>1. unit(k + 1) \in Unit
      BY <2>0 DEF Unit
    <3> HIDE DEF unit
    <3> QED BY <2>0, <3>1, BodyType
  <2>2. Len(Body(n, k)) = k /\ Len(Body(n, k + 1)) = k + 1
    BY <2>1 DEF Body
  <2>3. \A i \in 1..k : Body(n, k + 1)[i] = Body(n, k)[i]
    BY DEF Body
  <2>4. Body(n, k + 1)[k + 1] = unit(k + 1)
    BY DEF Body
  <2> HIDE DEF unit
  <2>5. Body(n, k + 1) = Append(Body(n, k), unit(k + 1))
    BY <2>1, <2>2, <2>3, <2>4
  <2>6. \A p \in Seq(Unit), q \in Seq(Unit), x \in Unit : p \o Append(q, x) = Append(p \o q, x)
    OBVIOUS
  <2>7. stm \o Body(n, k) \in Seq(Unit)
    BY <2>1
  <2>8. stm \o Append(Body(n, k), unit(k + 1)) = Append(stm \o Body(n, k), unit(k + 1))
    BY <2>1, <2>6, Zenon
  <2>9. stm \o Body(n, k + 1) = Append(stm \o Body(n, k), unit(k + 1))
    BY <2>5, <2>8, Zenon
  <2> QED BY <2>2, <2>5, <2>7, <2>9
<1>2. Body(n, 0) = <<>> /\ stm \o Body(n, 0) = stm
  <2>1. Body(n, 0) = <<>>
    BY DEF Body
  <2>2. stm \o <<>> = stm
    OBVIOUS
  <2> QED BY <2>1, <2>2
<1>3. ASSUME NEW k \in 0..len - 1, Cut(stm \o Body(n, k)) = Filling(len, Body(n, k), msgs)
      PROVE  Cut(stm \o Body(n, k + 1)) = Filling(len, Body(n, k + 1), msgs)
  <2>0. k \in Nat /\ k + 1 \in Nat /\ k < len
    BY <1>0
  <2>1. unit(k + 1) \in Unit
    BY <2>0 DEF Unit
  <2> HIDE DEF unit
  <2>2. Cut(stm \o Body(n, k + 1)) = Take(Upto(k), unit(k + 1))
    <3>1. Filling(len, Body(n, k), msgs) = Upto(k)
      BY <1>1, <2>0 DEF Filling
    <3> HIDE DEF Upto
    <3> QED BY <1>1, <1>3, <2>0, <2>1, <3>1, CutGrows
  <2>3. /\ Upto(k).at = "body" /\ Upto(k).size = len
        /\ Upto(k).part = Body(n, k) /\ Upto(k).msgs = msgs
    OBVIOUS
  <2>4. Body(n, k + 1) = Append(Body(n, k), unit(k + 1))
    BY <1>1, <2>0
  <2> HIDE DEF Upto
  <2> QED BY <2>2, <2>3, <2>4 DEF Take
<1> DEFINE T == {k \in 0..len : Cut(stm \o Body(n, k)) = Filling(len, Body(n, k), msgs)}
<1>4. 0..len \subseteq T
  <2>1. 0 \in T
    <3>1. 0 \in 0..len
      BY <1>0
    <3>2. Cut(stm \o Body(n, 0)) = Filling(len, Body(n, 0), msgs)
      BY <1>2, Zenon
    <3> QED BY <3>1, <3>2
  <2>2. ASSUME NEW k \in 0..len - 1, k \in T PROVE k + 1 \in T
    <3>1. k + 1 \in 0..len
      BY <1>0
    <3> QED BY <1>3, <2>2, <3>1
  <2> HIDE DEF T
  <2>3. 0 \in Int /\ len \in Int
    BY <1>0
  <2> QED BY <2>1, <2>2, <2>3, Induction
<1>5. Cut(stm \o Body(n, len)) = Filling(len, Body(n, len), msgs)
  BY <1>0, <1>4
<1>6. Len(Body(n, len)) = len
  <2> HIDE DEF unit
  <2> QED BY <1>0, <1>1
<1> QED BY <1>0, <1>5, <1>6 DEF Filling

-----------------------------------------------------------------------------
(* The streams of concerned connections.                                     *)

InSend(t, s) == call[t].at \in {"sendto", "hack", "framed", "plain"} /\ call[t].fd = fd_of[s]
InFrame(t, s) == call[t].at = "framed" /\ call[t].fd = fd_of[s]

\* One thread at a time sends on an unspoiled connection.
OneSender ==
  \A s \in Sock \ spoiled : \A t, u \in Thread : InSend(t, s) /\ InSend(u, s) => t = u

\* Nobody sends on a connection before connect or accept has returned.
SendsAfterOpen == \A s \in Sock, t \in Thread : InSend(t, s) => ~Opening(fd_of[s])

\* A send to a concerned peer is framed.
SendsFramed ==
  \A s \in Concerned \ spoiled, t \in Thread : InSend(t, s) => call[t].at # "plain"

\* The receiver has cut off what the program knows to be sent, and waits for a
\* header or for the whole of the message whose header has been sent.
StreamCut ==
  \A s \in Concerned \ spoiled :
    /\ \A t \in Thread : InFrame(t, s) => Cut(stream[s]) = Filling(call[t].len, <<>>, given[s])
    /\ (\A t \in Thread : ~InFrame(t, s)) => Cut(stream[s]) = Expecting(given[s])

CutInv == SenderTypeOK /\ SafetyInv /\ OneSender /\ SendsAfterOpen /\ SendsFramed /\ StreamCut

\* A step after which the same sends are under way as before.
LEMMA SameSends ==
  ASSUME CutInv, spoiled \subseteq spoiled', UNCHANGED <<stream, given>>,
         \A u \in Thread, r \in Sock :
           /\ InSend(u, r)' => InSend(u, r) /\ call'[u].at = call[u].at
           /\ InFrame(u, r)' <=> InFrame(u, r)
           /\ InFrame(u, r) => call'[u].len = call[u].len
  PROVE  OneSender' /\ SendsFramed' /\ StreamCut'
<1>1. OneSender'
  BY DEF CutInv, OneSender
<1>2. SendsFramed'
  BY SenderAssumption DEF CutInv, SendsFramed
<1>3. StreamCut'
  <2> SUFFICES ASSUME NEW s \in Concerned \ spoiled'
               PROVE  /\ \A t \in Thread : InFrame(t, s)' =>
                           Cut(stream'[s]) = Filling(call'[t].len, <<>>, given'[s])
                      /\ (\A t \in Thread : ~InFrame(t, s)') =>
                           Cut(stream'[s]) = Expecting(given'[s])
    BY DEF StreamCut
  <2>1. s \in Sock /\ s \in Concerned \ spoiled /\ stream'[s] = stream[s] /\ given'[s] = given[s]
    BY SenderAssumption
  <2> QED BY <2>1 DEF CutInv, StreamCut
<1> QED BY <1>1, <1>2, <1>3

\* Opening a socket disturbs no send.
LEMMA OpenCut ==
  ASSUME CutInv, NEW t \in Thread, NEW s \in Sock, Open(t, s)
  PROVE  OneSender' /\ SendsAfterOpen' /\ SendsFramed' /\ StreamCut'
<1>1. PICK f \in Fd :
        /\ fd_of[s] = Unopened /\ \A r \in Sock : fd_of[r] # f
        /\ fd_of' = [fd_of EXCEPT ![s] = f]
        /\ call[t] = Outside
        /\ call' = [call EXCEPT ![t] = [at |-> "opened", fd |-> f]]
        /\ spoiled \subseteq spoiled'
        /\ UNCHANGED <<stream, given>>
  BY DEF Open, Enter
<1>2. /\ fd_of'[s] = f /\ \A r \in Sock : r # s => fd_of'[r] = fd_of[r]
      /\ fd_of[s] \notin Fd
  BY <1>1, PlaceAssumption DEF CutInv, SenderTypeOK
<1>3. /\ call'[t].at = "opened" /\ call'[t].fd = f
      /\ \A u \in Thread : u # t => call'[u] = call[u]
      /\ call[t].at = "outside"
  BY <1>1 DEF CutInv, SenderTypeOK, Outside
<1>4. \A u \in Thread : call[u].at \in {"sendto", "hack", "framed", "plain"}
                          => call[u].fd \in Fd /\ call[u].fd # f
  BY <1>1, CallCases DEF CutInv, SafetyInv, CallsOpen
<1>5. \A u \in Thread, r \in Sock :
        /\ InSend(u, r)' <=> InSend(u, r)
        /\ InFrame(u, r)' <=> InFrame(u, r)
        /\ InSend(u, r) => call'[u] = call[u] /\ r # s
  <2> SUFFICES ASSUME NEW u \in Thread, NEW r \in Sock
               PROVE  /\ InSend(u, r)' <=> InSend(u, r)
                      /\ InFrame(u, r)' <=> InFrame(u, r)
                      /\ InSend(u, r) => call'[u] = call[u] /\ r # s
    OBVIOUS
  <2>1. CASE u = t
    BY <1>3, <2>1 DEF InSend, InFrame
  <2>2. CASE u # t /\ r = s
    BY <1>2, <1>3, <1>4, <2>2 DEF InSend, InFrame
  <2>3. CASE u # t /\ r # s
    BY <1>2, <1>3, <2>3 DEF InSend, InFrame
  <2> QED BY <2>1, <2>2, <2>3
<1>6. \A u \in Thread, r \in Sock : InFrame(u, r) => InSend(u, r)
  BY DEF InSend, InFrame
<1>7. OneSender' /\ SendsFramed' /\ StreamCut'
  BY <1>1, <1>5, <1>6, SameSends
<1>8. SendsAfterOpen'
  <2> SUFFICES ASSUME NEW r \in Sock, NEW u \in Thread, InSend(u, r)', Opening(fd_of[r])'
               PROVE  FALSE
    BY DEF SendsAfterOpen
  <2>1. InSend(u, r) /\ r # s /\ fd_of'[r] = fd_of[r] /\ fd_of[r] # f
    BY <1>1, <1>2, <1>5
  <2>2. Opening(fd_of[r])
    BY <1>3, <2>1 DEF Opening
  <2> QED BY <2>1, <2>2 DEF CutInv, SendsAfterOpen
<1> QED BY <1>7, <1>8

\* Nor does closing.
LEMMA CloseCut ==
  ASSUME CutInv, NEW t \in Thread, close(t)
  PROVE  OneSender' /\ SendsAfterOpen' /\ SendsFramed' /\ StreamCut'
<1>1. PICK s \in Sock, f \in Fd :
        /\ fd_of[s] = f /\ ~Sending(f)
        /\ fd_of' = [fd_of EXCEPT ![s] = Closed]
        /\ call[t] = Outside
        /\ call' = [call EXCEPT ![t] = [at |-> "closed", fd |-> f]]
        /\ UNCHANGED <<stream, given, spoiled>>
  BY DEF close, Enter
<1>2. /\ fd_of'[s] = Closed /\ \A r \in Sock : r # s => fd_of'[r] = fd_of[r]
      /\ Closed \notin Fd
  BY <1>1, PlaceAssumption DEF CutInv, SenderTypeOK
<1>3. /\ call'[t].at = "closed"
      /\ \A u \in Thread : u # t => call'[u] = call[u]
      /\ call[t].at = "outside"
  BY <1>1 DEF CutInv, SenderTypeOK, Outside
<1>4. \A u \in Thread : call[u].at \in {"sendto", "hack", "framed", "plain"}
                          => call[u].fd \in Fd /\ call[u].fd # f
  BY <1>1, CallCases DEF CutInv, Sending
<1>5. \A u \in Thread, r \in Sock :
        /\ InSend(u, r)' <=> InSend(u, r)
        /\ InFrame(u, r)' <=> InFrame(u, r)
        /\ InSend(u, r) => call'[u] = call[u] /\ r # s
  <2> SUFFICES ASSUME NEW u \in Thread, NEW r \in Sock
               PROVE  /\ InSend(u, r)' <=> InSend(u, r)
                      /\ InFrame(u, r)' <=> InFrame(u, r)
                      /\ InSend(u, r) => call'[u] = call[u] /\ r # s
    OBVIOUS
  <2>1. CASE u = t
    BY <1>3, <2>1 DEF InSend, InFrame
  <2>2. CASE u # t /\ r = s
    BY <1>1, <1>2, <1>3, <1>4, <2>2 DEF InSend, InFrame
  <2>3. CASE u # t /\ r # s
    BY <1>2, <1>3, <2>3 DEF InSend, InFrame
  <2> QED BY <2>1, <2>2, <2>3
<1>6. \A u \in Thread, r \in Sock : InFrame(u, r) => InSend(u, r)
  BY DEF InSend, InFrame
<1>7. OneSender' /\ SendsFramed' /\ StreamCut'
  BY <1>1, <1>5, <1>6, SameSends
<1>8. SendsAfterOpen'
  <2> SUFFICES ASSUME NEW r \in Sock, NEW u \in Thread, InSend(u, r)', Opening(fd_of[r])'
               PROVE  FALSE
    BY DEF SendsAfterOpen
  <2>1. InSend(u, r) /\ r # s /\ fd_of'[r] = fd_of[r]
    BY <1>2, <1>5
  <2>2. Opening(fd_of[r])
    BY <1>3, <2>1 DEF Opening
  <2> QED BY <2>1, <2>2 DEF CutInv, SendsAfterOpen
<1> QED BY <1>7, <1>8

\* The map of descriptors is of no account to a send that is under way.
LEMMA MapCut ==
  ASSUME CutInv, NEW t \in Thread, add_concerned_fd(t) \/ rm_concerned_fd(t)
  PROVE  OneSender' /\ SendsAfterOpen' /\ SendsFramed' /\ StreamCut'
<1>1. UNCHANGED <<fd_of, stream, given, spoiled>> /\ call[t].at \in {"opened", "closed"}
  BY DEF add_concerned_fd, rm_concerned_fd
<1>2. call'[t].at = "outside" /\ \A u \in Thread : u # t => call'[u] = call[u]
  BY CallReturn DEF add_concerned_fd, rm_concerned_fd, CutInv, Outside
<1>3. \A u \in Thread, r \in Sock :
        /\ InSend(u, r)' <=> InSend(u, r)
        /\ InFrame(u, r)' <=> InFrame(u, r)
        /\ InSend(u, r) => call'[u] = call[u]
  BY <1>1, <1>2 DEF InSend, InFrame
<1>4. \A u \in Thread, r \in Sock : InFrame(u, r) => InSend(u, r)
  BY DEF InSend, InFrame
<1>5. OneSender' /\ SendsFramed' /\ StreamCut'
  BY <1>1, <1>3, <1>4, SameSends
<1>6. \A g : Opening(g)' => Opening(g)
  BY <1>2 DEF Opening
<1>7. SendsAfterOpen'
  BY <1>1, <1>3, <1>6 DEF CutInv, SendsAfterOpen
<1> QED BY <1>5, <1>7

\* A send begins; write goes plain only past the map.
LEMMA BeginCut ==
  ASSUME CutInv, NEW t \in Thread, NEW s \in Sock, NEW p \in {"sendto", "plain"},
         BeginSend(t, s, p), p = "plain" => fd_of[s] \notin fd_map
  PROVE  OneSender' /\ SendsAfterOpen' /\ SendsFramed' /\ StreamCut'
<1>1. /\ fd_of[s] \in Fd /\ ~Opening(fd_of[s]) /\ call[t] = Outside
      /\ spoiled' = IF Sending(fd_of[s]) THEN spoiled \cup {s} ELSE spoiled
      /\ UNCHANGED <<fd_map, fd_of, stream, given>>
  BY DEF BeginSend, Enter
<1>2. /\ call'[t].at = p /\ call'[t].fd = fd_of[s]
      /\ \A u \in Thread : u # t => call'[u] = call[u]
      /\ call[t].at = "outside"
  BY DEF BeginSend, Enter, CutInv, SenderTypeOK, Outside
<1>3. \A r \in Sock : fd_of[r] = fd_of[s] => r = s
  BY <1>1 DEF CutInv, SafetyInv, OneSocketEach
<1>4. \A u \in Thread, r \in Sock :
        /\ InSend(u, r)' <=> InSend(u, r) \/ (u = t /\ r = s)
        /\ InFrame(u, r)' <=> InFrame(u, r)
        /\ InSend(u, r) => call'[u] = call[u] /\ u # t
  BY <1>1, <1>2, <1>3 DEF InSend, InFrame
<1>5. \A u \in Thread : InSend(u, s) => Sending(fd_of[s])
  BY DEF InSend, Sending
<1>6. OneSender'
  BY <1>1, <1>4, <1>5 DEF CutInv, OneSender
<1>7. SendsAfterOpen'
  <2>1. \A g : Opening(g)' => Opening(g)
    BY <1>2 DEF Opening
  <2> QED BY <1>1, <1>4, <2>1 DEF CutInv, SendsAfterOpen
<1>8. SendsFramed'
  <2> SUFFICES ASSUME NEW r \in Concerned \ spoiled', NEW u \in Thread, InSend(u, r)'
               PROVE  call'[u].at # "plain"
    BY DEF SendsFramed
  <2>1. r \in Sock /\ r \in Concerned \ spoiled
    BY <1>1, SenderAssumption
  <2>2. CASE InSend(u, r)
    BY <1>4, <2>1, <2>2 DEF CutInv, SendsFramed
  <2>3. CASE u = t /\ r = s
    BY <1>1, <1>2, <2>1, <2>3 DEF CutInv, SafetyInv, Traced
  <2> QED BY <1>4, <2>1, <2>2, <2>3
<1>9. StreamCut'
  <2>1. \A u \in Thread, r \in Sock : InFrame(u, r) => call'[u].len = call[u].len
    BY <1>4 DEF InSend, InFrame
  <2> SUFFICES ASSUME NEW r \in Concerned \ spoiled'
               PROVE  /\ \A u \in Thread : InFrame(u, r)' =>
                           Cut(stream'[r]) = Filling(call'[u].len, <<>>, given'[r])
                      /\ (\A u \in Thread : ~InFrame(u, r)') =>
                           Cut(stream'[r]) = Expecting(given'[r])
    BY DEF StreamCut
  <2>2. r \in Sock /\ r \in Concerned \ spoiled
    BY <1>1, SenderAssumption
  <2> QED BY <1>1, <1>4, <2>1, <2>2 DEF CutInv, StreamCut
<1> QED BY <1>6, <1>7, <1>8, <1>9

\* sendto looks the descriptor up.
LEMMA CheckCut ==
  ASSUME CutInv, NEW t \in Thread, is_concerned(t)
  PROVE  OneSender' /\ SendsAfterOpen' /\ SendsFramed' /\ StreamCut'
<1> DEFINE p == IF call[t].fd \in fd_map THEN "hack" ELSE "plain"
<1>1. call[t] \in Sends /\ call[t].at = "sendto"
  BY CallCases DEF is_concerned, CutInv
<1>2. Advance(t, p) /\ UNCHANGED <<fd_map, fd_of, stream, given, spoiled>>
  BY DEF is_concerned
<1>3. /\ call'[t].at = p /\ call'[t].fd = call[t].fd
      /\ \A u \in Thread : u # t => call'[u] = call[u]
  BY <1>1, <1>2, CallAdvance DEF CutInv
<1>4. \A u \in Thread, r \in Sock :
        /\ InSend(u, r)' <=> InSend(u, r)
        /\ InFrame(u, r)' <=> InFrame(u, r)
        /\ u # t => call'[u] = call[u]
        /\ InFrame(u, r) => u # t
  BY <1>1, <1>2, <1>3 DEF InSend, InFrame
<1>5. OneSender'
  BY <1>2, <1>4 DEF CutInv, OneSender
<1>6. SendsAfterOpen'
  <2>1. \A g : Opening(g)' => Opening(g)
    BY <1>1, <1>3 DEF Opening
  <2> QED BY <1>2, <1>4, <2>1 DEF CutInv, SendsAfterOpen
<1>7. SendsFramed'
  <2> SUFFICES ASSUME NEW r \in Concerned \ spoiled, NEW u \in Thread, InSend(u, r)'
               PROVE  call'[u].at # "plain"
    BY <1>2 DEF SendsFramed
  <2>1. r \in Sock /\ InSend(u, r)
    BY <1>4, SenderAssumption
  <2>2. CASE u = t
    <3>1. fd_of[r] = call[t].fd /\ fd_of[r] \in Fd /\ ~Opening(fd_of[r])
      BY <1>1, <2>1, <2>2 DEF InSend, Sends, CutInv, SendsAfterOpen
    <3>2. fd_of[r] \in fd_map
      BY <3>1 DEF CutInv, SafetyInv, Traced
    <3> QED BY <1>3, <2>2, <3>1, <3>2
  <2>3. CASE u # t
    BY <1>4, <2>1, <2>3 DEF CutInv, SendsFramed
  <2> QED BY <2>2, <2>3
<1>8. StreamCut'
  <2> SUFFICES ASSUME NEW r \in Concerned \ spoiled
               PROVE  /\ \A u \in Thread : InFrame(u, r)' =>
                           Cut(stream[r]) = Filling(call'[u].len, <<>>, given[r])
                      /\ (\A u \in Thread : ~InFrame(u, r)') =>
                           Cut(stream[r]) = Expecting(given[r])
    BY <1>2 DEF StreamCut
  <2>1. r \in Sock
    BY SenderAssumption
  <2> QED BY <1>4, <2>1 DEF CutInv, StreamCut
<1> QED BY <1>5, <1>6, <1>7, <1>8

\* The header goes out, or the call fails.
LEMMA HackCut ==
  ASSUME CutInv, NEW t \in Thread, hack(t)
  PROVE  OneSender' /\ SendsAfterOpen' /\ SendsFramed' /\ StreamCut'
<1> DEFINE s == SocketAt(call[t].fd)
           h == Header(call[t].n, call[t].len)
<1>1. /\ call[t] \in Sends /\ call[t].at = "hack" /\ s \in Sock
      /\ fd_of[s] = call[t].fd /\ call[t].fd \in Fd
  BY CallCases, CallSocket DEF hack, CutInv, SafetyInv
<1>2. /\ UNCHANGED <<fd_map, fd_of, given>> /\ spoiled \subseteq spoiled'
      /\ \/ stream' = [stream EXCEPT ![s] = Append(@, h)] /\ Advance(t, "framed")
         \/ /\ \E unit : stream' = [stream EXCEPT ![s] = Append(@, unit)]
            /\ Advance(t, "framed") /\ s \in spoiled'
         \/ Return(t) /\ UNCHANGED stream
  BY DEF hack, SendHeader, SendTornHeader
<1>3. /\ \A u \in Thread : u # t => call'[u] = call[u]
      /\ Advance(t, "framed") => /\ call'[t].at = "framed" /\ call'[t].fd = call[t].fd
                                 /\ call'[t].len = call[t].len
      /\ Return(t) => call'[t].at = "outside"
  <2>1. CASE Advance(t, "framed")
    <3>1. /\ call'[t] = [call[t] EXCEPT !.at = "framed"]
          /\ call'[t].at = "framed" /\ call'[t].fd = call[t].fd
          /\ \A u \in Thread : u # t => call'[u] = call[u]
      BY <1>1, <2>1, CallAdvance DEF CutInv
    <3>2. call'[t].len = call[t].len
      BY <1>1, <3>1 DEF Sends
    <3>3. ~Return(t)
      BY <1>1, <3>1, CallReturn DEF CutInv, Outside
    <3> QED BY <3>1, <3>2, <3>3
  <2>2. CASE Return(t)
    <3>1. call'[t].at = "outside" /\ \A u \in Thread : u # t => call'[u] = call[u]
      BY <2>2, CallReturn DEF CutInv, Outside
    <3>2. ~Advance(t, "framed")
      BY <1>1, <3>1, CallAdvance DEF CutInv
    <3> QED BY <3>1, <3>2
  <2> QED BY <1>2, <2>1, <2>2
<1> HIDE DEF s, h
<1>4. \A r \in Sock : InSend(t, r) <=> r = s
  BY <1>1 DEF InSend, CutInv, SafetyInv, OneSocketEach
<1>5. \A u \in Thread, r \in Sock :
        /\ u # t => /\ InSend(u, r)' <=> InSend(u, r)
                    /\ InFrame(u, r)' <=> InFrame(u, r)
        /\ InSend(t, r)' => InSend(t, r) /\ Advance(t, "framed")
        /\ InFrame(t, r)' <=> r = s /\ Advance(t, "framed")
        /\ ~InFrame(t, r)
        /\ InFrame(u, r) => InSend(u, r)
  BY <1>1, <1>2, <1>3, <1>4 DEF InSend, InFrame
<1>6. OneSender'
  BY <1>2, <1>5 DEF CutInv, OneSender
<1>7. SendsAfterOpen'
  <2>1. \A g : Opening(g)' => Opening(g)
    BY <1>1, <1>2, <1>3 DEF Opening
  <2> QED BY <1>2, <1>5, <2>1 DEF CutInv, SendsAfterOpen
<1>8. SendsFramed'
  BY <1>2, <1>3, <1>5, SenderAssumption DEF CutInv, SendsFramed
<1>9. StreamCut'
  <2> SUFFICES ASSUME NEW r \in Concerned \ spoiled'
               PROVE  /\ \A u \in Thread : InFrame(u, r)' =>
                           Cut(stream'[r]) = Filling(call'[u].len, <<>>, given[r])
                      /\ (\A u \in Thread : ~InFrame(u, r)') =>
                           Cut(stream'[r]) = Expecting(given[r])
    BY <1>2 DEF StreamCut
  <2>1. r \in Sock /\ r \in Concerned \ spoiled
    BY <1>2, SenderAssumption
  <2>2. CASE r # s \/ Return(t)
    <3>1. stream'[r] = stream[r]
      BY <1>1, <1>2, <2>1, <2>2, <1>3 DEF CutInv, SenderTypeOK
    <3>2. \A u \in Thread : /\ InFrame(u, r)' <=> InFrame(u, r)
                            /\ InFrame(u, r) => call'[u] = call[u]
      BY <1>3, <1>5, <2>1, <2>2
    <3> QED BY <2>1, <3>1, <3>2 DEF CutInv, StreamCut
  <2>3. CASE r = s /\ ~Return(t)
    <3>1. stream'[r] = Append(stream[r], h) /\ Advance(t, "framed")
      BY <1>1, <1>2, <2>3 DEF CutInv, SenderTypeOK
    <3>2. \A u \in Thread : InSend(u, r) => u = t
      BY <1>4, <2>1, <2>3 DEF CutInv, OneSender
    <3>3. \A u \in Thread : ~InFrame(u, r)
      BY <1>5, <2>1, <3>2
    <3>4. Cut(stream[r]) = Expecting(given[r])
      BY <2>1, <3>3 DEF CutInv, StreamCut
    <3>5. Cut(stream'[r]) = Filling(call[t].len, <<>>, given[r])
      <4>1. stream[r] \in Seq(Unit) /\ call[t].n \in Nat /\ call[t].len \in Lens
        BY <1>1, <2>1 DEF CutInv, SenderTypeOK, Sends
      <4> QED BY <3>1, <3>4, <4>1, CutHeader DEF h
    <3>6. \A u \in Thread : InFrame(u, r)' <=> u = t
      BY <1>5, <2>1, <2>3, <3>1, <3>3
    <3> QED BY <1>3, <3>1, <3>5, <3>6
  <2> QED BY <2>2, <2>3
<1> QED BY <1>6, <1>7, <1>8, <1>9

\* The message goes out.
LEMMA RealCut ==
  ASSUME CutInv, NEW t \in Thread, real_sendto(t)
  PROVE  OneSender' /\ SendsAfterOpen' /\ SendsFramed' /\ StreamCut'
<1> DEFINE s == SocketAt(call[t].fd)
           b(k) == Body(call[t].n, k)
<1>1. /\ call[t] \in Sends /\ call[t].at \in {"framed", "plain"} /\ s \in Sock
      /\ fd_of[s] = call[t].fd /\ call[t].fd \in Fd
  BY CallCases, CallSocket DEF real_sendto, CutInv, SafetyInv
<1>2. PICK k \in Taken(s, call[t].len) :
        /\ stream' = [stream EXCEPT ![s] = @ \o b(k)]
        /\ given' = IF k = 0 /\ call[t].len # 0 THEN given
                    ELSE [given EXCEPT ![s] = Append(@, b(k))]
        /\ spoiled' = IF call[t].at = "framed" /\ k # call[t].len
                      THEN spoiled \cup {s} ELSE spoiled
  BY DEF real_sendto
<1>3. /\ UNCHANGED <<fd_map, fd_of>> /\ spoiled \subseteq spoiled'
      /\ call'[t].at = "outside" /\ \A u \in Thread : u # t => call'[u] = call[u]
  BY <1>2, CallReturn DEF real_sendto, Outside, CutInv
<1> HIDE DEF s, b
<1>4. \A r \in Sock : InSend(t, r) <=> r = s
  BY <1>1 DEF InSend, CutInv, SafetyInv, OneSocketEach
<1>5. \A u \in Thread, r \in Sock :
        /\ u # t => /\ InSend(u, r)' <=> InSend(u, r)
                    /\ InFrame(u, r)' <=> InFrame(u, r)
        /\ ~InSend(t, r)' /\ ~InFrame(t, r)'
        /\ InFrame(u, r) => InSend(u, r)
  BY <1>3 DEF InSend, InFrame
<1>6. OneSender'
  BY <1>3, <1>5 DEF CutInv, OneSender
<1>7. SendsAfterOpen'
  <2>1. \A g : Opening(g)' => Opening(g)
    BY <1>3 DEF Opening
  <2> QED BY <1>3, <1>5, <2>1 DEF CutInv, SendsAfterOpen
<1>8. SendsFramed'
  BY <1>3, <1>5, SenderAssumption DEF CutInv, SendsFramed
<1>9. StreamCut'
  <2> SUFFICES ASSUME NEW r \in Concerned \ spoiled'
               PROVE  /\ \A u \in Thread : InFrame(u, r)' =>
                           Cut(stream'[r]) = Filling(call'[u].len, <<>>, given'[r])
                      /\ (\A u \in Thread : ~InFrame(u, r)') =>
                           Cut(stream'[r]) = Expecting(given'[r])
    BY DEF StreamCut
  <2>1. r \in Sock /\ r \in Concerned \ spoiled
    BY <1>3, SenderAssumption
  <2>2. CASE r # s
    <3>1. stream'[r] = stream[r] /\ given'[r] = given[r]
      BY <1>1, <1>2, <2>1, <2>2 DEF CutInv, SenderTypeOK
    <3>2. \A u \in Thread : /\ InFrame(u, r)' <=> InFrame(u, r)
                            /\ InFrame(u, r) => call'[u] = call[u]
      BY <1>3, <1>4, <1>5, <2>1, <2>2
    <3> QED BY <2>1, <3>1, <3>2 DEF CutInv, StreamCut
  <2>3. CASE r = s
    <3>1. InSend(t, s) /\ InFrame(t, s) /\ call[t].at = "framed"
      BY <1>1, <1>4, <2>1, <2>3 DEF CutInv, SendsFramed, InFrame
    <3>2. k = call[t].len
      BY <1>2, <2>3, <3>1
    <3>3. stream'[s] = stream[s] \o b(k) /\ given'[s] = Append(given[s], b(k))
      BY <1>1, <1>2, <3>2 DEF CutInv, SenderTypeOK
    <3>4. Cut(stream[s]) = Filling(k, <<>>, given[s])
      BY <2>1, <2>3, <3>1, <3>2 DEF CutInv, StreamCut
    <3>5. Cut(stream'[s]) = Expecting(given'[s])
      <4>1. stream[s] \in Seq(Unit) /\ call[t].n \in Nat /\ k \in Lens
        BY <1>1, <3>2 DEF CutInv, SenderTypeOK, Sends
      <4> QED BY <3>3, <3>4, <4>1, CutBody DEF b
    <3>6. ASSUME NEW u \in Thread, InFrame(u, r)' PROVE FALSE
      <4>1. u # t /\ InSend(u, r) /\ InSend(t, r)
        BY <1>4, <1>5, <2>1, <2>3, <3>6
      <4> QED BY <2>1, <4>1 DEF CutInv, OneSender
    <3>7. Cut(stream'[r]) = Expecting(given'[r])
      BY <2>3, <3>5
    <3> QED BY <3>6, <3>7
  <2> QED BY <2>2, <2>3
<1> QED BY <1>6, <1>7, <1>8, <1>9

\* The whole of it is inductive.
LEMMA CutKept == CutInv /\ [SenderNext]_senderVars => CutInv'
<1> SUFFICES ASSUME CutInv, [SenderNext]_senderVars PROVE CutInv'
  OBVIOUS
<1>1. (SenderTypeOK /\ SafetyInv)'
  BY NextSafe DEF CutInv
<1>2. CASE UNCHANGED senderVars
  <2>1. /\ UNCHANGED <<fd_of, stream, given, call, spoiled>>
        /\ \A u, r : /\ InSend(u, r)' <=> InSend(u, r)
                     /\ InFrame(u, r)' <=> InFrame(u, r)
        /\ \A g : Opening(g)' <=> Opening(g)
    BY <1>2 DEF senderVars, InSend, InFrame, Opening
  <2> QED BY <1>1, <2>1 DEF CutInv, OneSender, SendsAfterOpen, SendsFramed, StreamCut
<1>3. ASSUME NEW t \in Thread, Hook(t) PROVE CutInv'
  <2>1. CASE connect(t) \/ accept(t)
    <3>1. PICK s \in Sock : Open(t, s)
      BY <2>1, SenderAssumption DEF connect, accept
    <3> QED BY <1>1, <3>1, OpenCut DEF CutInv
  <2>2. CASE add_concerned_fd(t) \/ rm_concerned_fd(t)
    BY <1>1, <2>2, MapCut DEF CutInv
  <2>3. CASE close(t)
    BY <1>1, <2>3, CloseCut DEF CutInv
  <2>4. CASE write(t) \/ send(t)
    <3>1. PICK s \in Sock, p \in {"sendto", "plain"} :
            BeginSend(t, s, p) /\ (p = "plain" => fd_of[s] \notin fd_map)
      BY <2>4 DEF write, send
    <3> QED BY <1>1, <3>1, BeginCut DEF CutInv
  <2>5. CASE is_concerned(t)
    BY <1>1, <2>5, CheckCut DEF CutInv
  <2>6. CASE hack(t)
    BY <1>1, <2>6, HackCut DEF CutInv
  <2>7. CASE real_sendto(t)
    BY <1>1, <2>7, RealCut DEF CutInv
  <2> QED BY <1>3, <2>1, <2>2, <2>3, <2>4, <2>5, <2>6, <2>7 DEF Hook
<1> QED BY <1>2, <1>3 DEF SenderNext

\* Before anything is open.
LEMMA CutStarts == SenderInit => CutInv
<1> SUFFICES ASSUME SenderInit PROVE CutInv
  OBVIOUS
<1>1. SenderTypeOK /\ SafetyInv
  BY InitSafe
<1>2. \A t \in Thread, s \in Sock : ~InSend(t, s) /\ ~InFrame(t, s)
  BY DEF SenderInit, Outside, InSend, InFrame
<1>3. \A s \in Sock : stream[s] = <<>> /\ given[s] = <<>>
  BY DEF SenderInit
<1>4. StreamCut
  BY <1>2, <1>3, CutNothing, SenderAssumption DEF StreamCut
<1> QED
  BY <1>1, <1>2, <1>4, SenderAssumption DEF CutInv, OneSender, SendsAfterOpen, SendsFramed

-----------------------------------------------------------------------------
(* The loop, which takes what has come of a stream as it grows.              *)

\* All of a sequence, and nothing of it.
LEMMA PrefixEnds ==
  ASSUME NEW stm \in Seq(Unit)
  PROVE  SubSeq(stm, 1, Len(stm)) = stm /\ SubSeq(stm, 1, 0) = <<>>
OBVIOUS

\* The first k + 1 units are the first k and one more.
LEMMA PrefixGrows ==
  ASSUME NEW stm \in Seq(Unit), NEW k \in 0..Len(stm) - 1
  PROVE  /\ SubSeq(stm, 1, k) \in Seq(Unit) /\ stm[k + 1] \in Unit
         /\ SubSeq(stm, 1, k + 1) = Append(SubSeq(stm, 1, k), stm[k + 1])
<1> DEFINE p == SubSeq(stm, 1, k)
           q == SubSeq(stm, 1, k + 1)
<1>1. k + 1 \in 1..Len(stm) /\ k \in 0..Len(stm)
  OBVIOUS
<1>2. p \in Seq(Unit) /\ Len(p) = k /\ \A i \in 1..k : p[i] = stm[i]
  BY <1>1
<1>3. q \in Seq(Unit) /\ Len(q) = k + 1 /\ \A i \in 1..k + 1 : q[i] = stm[i]
  BY <1>1
<1>4. stm[k + 1] \in Unit
  BY <1>1
<1> HIDE DEF p, q
<1>5. q = Append(p, stm[k + 1])
  BY <1>1, <1>2, <1>3, <1>4
<1> QED BY <1>2, <1>4, <1>5 DEF p, q

\* What has been taken of a stream stays what it is when the stream grows.
LEMMA PrefixStays ==
  ASSUME NEW stm \in Seq(Unit), NEW ext \in Seq(Unit), NEW k \in 0..Len(stm)
  PROVE  /\ stm \o ext \in Seq(Unit) /\ k \in 0..Len(stm \o ext)
         /\ SubSeq(stm \o ext, 1, k) = SubSeq(stm, 1, k)
<1>1. stm \o ext \in Seq(Unit) /\ Len(stm \o ext) = Len(stm) + Len(ext)
  OBVIOUS
<1>2. \A i \in 1..Len(stm) : (stm \o ext)[i] = stm[i]
  OBVIOUS
<1> DEFINE more == stm \o ext
<1> HIDE DEF more
<1>3. more \in Seq(Unit) /\ k \in 0..Len(more) /\ \A i \in 1..k : more[i] = stm[i]
  BY <1>1, <1>2 DEF more
<1>4. SubSeq(more, 1, k) = SubSeq(stm, 1, k)
  BY <1>3
<1> QED BY <1>3, <1>4 DEF more

\* The loop never goes back on a message it has cut off.
Begins(msgs, more) == Len(msgs) <= Len(more) /\ \A i \in 1..Len(msgs) : more[i] = msgs[i]

LEMMA TakeExtends ==
  ASSUME NEW c \in Place, NEW u \in Unit
  PROVE  Begins(c.msgs, Take(c, u).msgs)
<1>1. c.msgs \in Seq(Seq(Piece)) /\ Raw \in Seq(Piece)
  BY DEF Place, Piece, Raw
<1>2. \A part \in Seq(Piece) : Begins(c.msgs, Append(c.msgs, part))
  BY <1>1 DEF Begins
<1>3. Begins(c.msgs, c.msgs)
  BY <1>1 DEF Begins
<1>4. \A size \in Nat, part \in Seq(Piece) : Begins(c.msgs, Filling(size, part, c.msgs).msgs)
  BY <1>2, <1>3 DEF Filling, Expecting
<1>5. CASE c.at = "raw"
  BY <1>3, <1>5 DEF Take
<1>6. CASE c.at = "body"
  <2>1. Append(c.part, u) \in Seq(Piece) /\ c.size \in Nat
    BY DEF Place, Piece
  <2>2. Take(c, u) = Filling(c.size, Append(c.part, u), c.msgs)
    BY <1>6 DEF Take
  <2> QED BY <1>4, <2>1, <2>2
<1>7. CASE c.at = "header" /\ u.kind = "header"
  <2>1. u.size \in Nat
    BY <1>7, SenderAssumption DEF Unit
  <2>0. <<>> \in Seq(Piece)
    OBVIOUS
  <2>2. Take(c, u) = Filling(u.size, <<>>, c.msgs)
    BY <1>7 DEF Take
  <2> QED BY <1>4, <2>0, <2>1, <2>2
<1>8. CASE c.at = "header" /\ u.kind # "header"
  <2>1. Take(c, u) = Passing(Append(c.msgs, Raw))
    BY <1>8 DEF Take
  <2> QED BY <1>1, <1>2, <2>1 DEF Passing
<1> QED BY <1>5, <1>6, <1>7, <1>8 DEF Place

LEMMA CutPlace ==
  ASSUME NEW stm \in Seq(Unit)
  PROVE  \A k \in 0..Len(stm) : Cut(SubSeq(stm, 1, k)) \in Place
<1> DEFINE T == {k \in 0..Len(stm) : Cut(SubSeq(stm, 1, k)) \in Place}
<1>1. 0 \in T
  <2>1. Cut(SubSeq(stm, 1, 0)) = Expecting(<<>>)
    BY PrefixEnds, CutNothing
  <2>2. Expecting(<<>>) \in Place
    BY DEF Expecting, Place
  <2>3. 0 \in 0..Len(stm)
    OBVIOUS
  <2> QED BY <2>1, <2>2, <2>3
<1>2. ASSUME NEW k \in 0..Len(stm) - 1, k \in T PROVE k + 1 \in T
  <2>1. Cut(SubSeq(stm, 1, k + 1)) = Take(Cut(SubSeq(stm, 1, k)), stm[k + 1])
    BY PrefixGrows, CutGrows
  <2>2. Cut(SubSeq(stm, 1, k + 1)) \in Place
    BY <1>2, <2>1, PrefixGrows, TakeStays
  <2> QED BY <2>2
<1> HIDE DEF T
<1>3. 0..Len(stm) \subseteq T
  <2>1. 0 \in Int /\ Len(stm) \in Int
    OBVIOUS
  <2> QED BY <1>1, <1>2, <2>1, Induction
<1> QED BY <1>3 DEF T

\* What it has cut off of the first units begins what it cuts off of all.
LEMMA CutBegins ==
  ASSUME NEW stm \in Seq(Unit), NEW k \in 0..Len(stm)
  PROVE  Begins(Cut(SubSeq(stm, 1, k)).msgs, Cut(stm).msgs)
<1> DEFINE msgs(i) == Cut(SubSeq(stm, 1, i)).msgs
           T == {i \in k..Len(stm) : Begins(msgs(k), msgs(i))}
<1>1. \A i \in 0..Len(stm) : msgs(i) \in Seq(Seq(Piece))
  BY CutPlace DEF Place
<1>2. k \in T
  <2>1. msgs(k) \in Seq(Seq(Piece)) /\ k \in k..Len(stm)
    BY <1>1
  <2> HIDE DEF msgs
  <2> QED BY <2>1 DEF Begins
<1>3. ASSUME NEW i \in k..Len(stm) - 1, i \in T PROVE i + 1 \in T
  <2>0. i \in 0..Len(stm) - 1 /\ i \in 0..Len(stm) /\ i + 1 \in 0..Len(stm) /\ i + 1 \in k..Len(stm)
    OBVIOUS
  <2>1. Cut(SubSeq(stm, 1, i)) \in Place
    BY <2>0, CutPlace
  <2>2. Cut(SubSeq(stm, 1, i + 1)) = Take(Cut(SubSeq(stm, 1, i)), stm[i + 1])
    BY <2>0, PrefixGrows, CutGrows
  <2>3. Begins(msgs(i), msgs(i + 1))
    BY <2>0, <2>1, <2>2, PrefixGrows, TakeExtends
  <2>4. msgs(k) \in Seq(Seq(Piece)) /\ msgs(i) \in Seq(Seq(Piece)) /\ msgs(i + 1) \in Seq(Seq(Piece))
    BY <1>1, <2>0
  <2>5. Begins(msgs(k), msgs(i))
    BY <1>3
  <2> HIDE DEF msgs
  <2>6. Begins(msgs(k), msgs(i + 1))
    BY <2>3, <2>4, <2>5 DEF Begins
  <2> QED BY <2>0, <2>6
<1>4. Begins(msgs(k), msgs(Len(stm)))
  <2>1. Len(stm) \in k..Len(stm) /\ k \in Int /\ Len(stm) \in Int
    OBVIOUS
  <2> HIDE DEF msgs
  <2>2. k..Len(stm) \subseteq T
    <3> HIDE DEF T
    <3> QED BY <1>2, <1>3, <2>1, Induction
  <2> QED BY <2>1, <2>2
<1>5. SubSeq(stm, 1, Len(stm)) = stm
  BY PrefixEnds
<1> QED BY <1>4, <1>5

\* A step of the hooks adds to the streams and takes nothing from them.
LEMMA StreamsGrow ==
  ASSUME CutInv, [SenderNext]_senderVars, NEW s \in Sock
  PROVE  \E ext \in Seq(Unit) : stream'[s] = stream[s] \o ext
<1>1. stream[s] \in Seq(Unit) /\ stream \in [Sock -> Seq(Unit)]
  BY DEF CutInv, SenderTypeOK
<1>2. CASE UNCHANGED stream
  <2>1. stream'[s] = stream[s] \o <<>> /\ <<>> \in Seq(Unit)
    BY <1>1, <1>2
  <2> QED BY <2>1
<1>3. ASSUME NEW t \in Thread, hack(t)
      PROVE  \E ext \in Seq(Unit) : stream'[s] = stream[s] \o ext
  <2> DEFINE r == SocketAt(call[t].fd)
  <2>1. /\ r \in Sock
        /\ \/ UNCHANGED stream
           \/ \E unit \in Unit : stream' = [stream EXCEPT ![r] = Append(@, unit)]
    BY <1>3, HackStep DEF CutInv, SafetyInv
  <2> HIDE DEF r
  <2>2. CASE \E unit \in Unit : stream' = [stream EXCEPT ![r] = Append(@, unit)] /\ r = s
    <3>1. PICK unit \in Unit : stream'[s] = Append(stream[s], unit)
      BY <1>1, <2>2
    <3>2. Append(stream[s], unit) = stream[s] \o <<unit>> /\ <<unit>> \in Seq(Unit)
      BY <1>1
    <3> QED BY <3>1, <3>2
  <2>3. CASE r # s
    <3>1. stream'[s] = stream[s]
      BY <1>1, <2>1, <2>3
    <3>2. stream'[s] = stream[s] \o <<>> /\ <<>> \in Seq(Unit)
      BY <1>1, <3>1
    <3> QED BY <3>2
  <2> QED BY <1>2, <2>1, <2>2, <2>3
<1>4. ASSUME NEW t \in Thread, real_sendto(t)
      PROVE  \E ext \in Seq(Unit) : stream'[s] = stream[s] \o ext
  <2> DEFINE r == SocketAt(call[t].fd)
             b(k) == Body(call[t].n, k)
  <2>1. call[t] \in Sends /\ r \in Sock
    BY <1>4, CallCases, CallSocket DEF real_sendto, CutInv, SafetyInv
  <2>2. PICK k \in Taken(r, call[t].len) : stream' = [stream EXCEPT ![r] = @ \o b(k)]
    BY <1>4 DEF real_sendto
  <2>3. b(k) \in Seq(Unit)
    <3>1. call[t].len \in Nat /\ call[t].n \in Nat
      BY <2>1, SenderAssumption DEF Sends
    <3> HIDE DEF r
    <3>2. k \in Nat
      BY <2>2, <3>1 DEF Taken
    <3> QED BY <3>1, <3>2, BodyType
  <2> HIDE DEF r, b
  <2>4. CASE r = s
    BY <1>1, <2>2, <2>3, <2>4
  <2>5. CASE r # s
    <3>1. stream'[s] = stream[s]
      BY <1>1, <2>1, <2>2, <2>5
    <3>2. stream'[s] = stream[s] \o <<>> /\ <<>> \in Seq(Unit)
      BY <1>1, <3>1
    <3> QED BY <3>2
  <2> QED BY <2>4, <2>5
<1>5. ASSUME NEW t \in Thread, Hook(t), ~hack(t), ~real_sendto(t) PROVE UNCHANGED stream
  BY <1>5 DEF Hook, connect, accept, Open, add_concerned_fd, close, rm_concerned_fd,
              write, send, BeginSend, is_concerned
<1> QED BY <1>2, <1>3, <1>4, <1>5 DEF SenderNext, senderVars

\* What the loop has taken is at the front of the stream; while it examines what
\* comes it is where Cut says, and afterwards it still has the messages up to there.
LoopOk ==
  /\ taken \in [Concerned -> Nat] /\ DOMAIN loop = Concerned
  /\ \A s \in Concerned :
       LET reached == Cut(SubSeq(stream[s], 1, taken[s]))
       IN  /\ taken[s] <= Len(stream[s])
           /\ loop[s].msgs = reached.msgs
           /\ Receiving(s) => loop[s] = reached

LEMMA LoopKept ==
  ASSUME CutInv, LoopOk, [ReceptionNext]_receptionVars
  PROVE  LoopOk' /\ [SenderNext]_senderVars
<1>1. [SenderNext]_senderVars
  BY DEF ReceptionNext, receptionVars, do_receive
<1>2. \A s \in Concerned : s \in Sock /\ stream[s] \in Seq(Unit) /\ taken[s] \in 0..Len(stream[s])
  <2> SUFFICES ASSUME NEW s \in Concerned
               PROVE  s \in Sock /\ stream[s] \in Seq(Unit) /\ taken[s] \in 0..Len(stream[s])
    OBVIOUS
  <2>1. s \in Sock /\ stream[s] \in Seq(Unit)
    BY SenderAssumption DEF CutInv, SenderTypeOK
  <2>2. taken[s] \in Nat /\ taken[s] <= Len(stream[s])
    BY DEF LoopOk
  <2> QED BY <2>1, <2>2
<1>3. CASE UNCHANGED <<taken, loop>>
  <2> SUFFICES ASSUME NEW s \in Concerned
               PROVE  /\ taken[s] <= Len(stream'[s])
                      /\ SubSeq(stream'[s], 1, taken[s]) = SubSeq(stream[s], 1, taken[s])
    BY <1>1, <1>3 DEF LoopOk, Receiving
  <2>1. PICK ext \in Seq(Unit) : stream'[s] = stream[s] \o ext
    BY <1>1, <1>2, StreamsGrow
  <2>2. /\ taken[s] \in 0..Len(stream'[s])
        /\ SubSeq(stream'[s], 1, taken[s]) = SubSeq(stream[s], 1, taken[s])
    BY <1>2, <2>1, PrefixStays
  <2> QED BY <2>2
<1>4. ASSUME NEW s \in Concerned, do_receive(s) PROVE LoopOk'
  <2>1. UNCHANGED stream
    BY <1>4 DEF do_receive, senderVars
  <2> DEFINE reached == Cut(SubSeq(stream[s], 1, taken[s]))
  <2>2. /\ DOMAIN loop = Concerned /\ taken \in [Concerned -> Nat]
        /\ loop[s].msgs = reached.msgs
        /\ Receiving(s) => loop[s] = reached
    BY DEF LoopOk
  <2>3. CASE ReceiveUnit(s)
    <3>1. /\ loop' = [loop EXCEPT ![s] = Take(@, stream[s][taken[s] + 1])]
          /\ taken' = [taken EXCEPT ![s] = @ + 1]
          /\ Receiving(s) /\ taken[s] \in 0..Len(stream[s]) - 1
      BY <1>2, <2>3 DEF ReceiveUnit, Arrived
    <3>2. Take(reached, stream[s][taken[s] + 1]) = Cut(SubSeq(stream[s], 1, taken[s] + 1))
      BY <1>2, <3>1, PrefixGrows, CutGrows
    <3>3. taken'[s] = taken[s] + 1 /\ taken[s] + 1 <= Len(stream[s]) /\ taken' \in [Concerned -> Nat]
      <4>1. taken[s] \in Nat /\ Len(stream[s]) \in Nat
        BY <1>2, <2>2
      <4> QED BY <2>2, <3>1, <4>1
    <3>4. loop'[s] = Cut(SubSeq(stream'[s], 1, taken'[s]))
      BY <2>1, <2>2, <3>1, <3>2, <3>3
    <3>5. \A r \in Concerned \ {s} : taken'[r] = taken[r] /\ loop'[r] = loop[r]
      BY <2>2, <3>1
    <3>6. DOMAIN loop' = Concerned
      BY <2>2, <3>1
    <3> QED BY <2>1, <3>3, <3>4, <3>5, <3>6 DEF LoopOk, Receiving
  <2>4. CASE HeaderInPieces(s) \/ BodyLate(s)
    <3>1. loop' \in {[loop EXCEPT ![s] = Passing(@.msgs)], [loop EXCEPT ![s] = Ended(@.msgs)]}
      BY <2>4 DEF HeaderInPieces, BodyLate
    <3>2. UNCHANGED taken
      BY <2>4 DEF HeaderInPieces, BodyLate
    <3>3. loop'[s].msgs = loop[s].msgs /\ loop'[s].at \in {"raw", "closed"}
      BY <2>2, <3>1 DEF Passing, Ended
    <3>4. \A r \in Concerned \ {s} : loop'[r] = loop[r]
      BY <2>2, <3>1
    <3>5. DOMAIN loop' = Concerned
      BY <2>2, <3>1
    <3> QED BY <2>1, <3>2, <3>3, <3>4, <3>5 DEF LoopOk, Receiving
  <2> QED BY <1>4, <2>3, <2>4 DEF do_receive
<1> QED BY <1>1, <1>3, <1>4 DEF ReceptionNext, receptionVars

LEMMA LoopStarts == ReceptionInit => CutInv /\ LoopOk
<1> SUFFICES ASSUME ReceptionInit PROVE CutInv /\ LoopOk
  OBVIOUS
<1>1. CutInv
  BY CutStarts DEF ReceptionInit
<1>2. \A s \in Concerned : stream[s] = <<>> /\ taken[s] = 0 /\ loop[s] = Expecting(<<>>)
  BY SenderAssumption DEF ReceptionInit, SenderInit
<1>3. SubSeq(<<>>, 1, 0) = <<>> /\ Len(<<>>) = 0
  OBVIOUS
<1>4. taken \in [Concerned -> Nat] /\ DOMAIN loop = Concerned
  BY DEF ReceptionInit
<1>5. \A s \in Concerned :
        /\ SubSeq(stream[s], 1, taken[s]) = <<>>
        /\ taken[s] <= Len(stream[s]) /\ loop[s] = Cut(<<>>)
  BY <1>2, <1>3, CutNothing
<1>6. LoopOk
  BY <1>4, <1>5 DEF LoopOk
<1> QED BY <1>1, <1>6

\* For any threads, sockets and messages, and wherever the pieces of a stream are
\* parted: between sends, what the loop has cut out of the stream of a concerned
\* connection are the first messages the program knows to be sent, and all of them
\* once it has taken all and still examines what comes; unless one of the four
\* hazards has happened on the connection (sendto, hack, do_receive).
THEOREM StreamsTransparent == ReceptionSpec => []Transparent
<1>1. CutInv /\ LoopOk => Transparent
  <2> SUFFICES ASSUME CutInv, LoopOk, NEW s \in Concerned \ spoiled, ~Sending(fd_of[s])
               PROVE  /\ Begins(loop[s].msgs, given[s])
                      /\ DOMAIN loop[s].msgs = 1..Len(loop[s].msgs)
                      /\ Receiving(s) /\ ~Arrived(s) => loop[s] = Expecting(given[s])
    BY DEF Transparent, Begins
  <2> DEFINE reached == Cut(SubSeq(stream[s], 1, taken[s]))
  <2>1. \A t \in Thread : ~InFrame(t, s)
    BY DEF InFrame, Sending
  <2>2. Cut(stream[s]) = Expecting(given[s])
    BY <2>1 DEF CutInv, StreamCut
  <2>3. Cut(stream[s]).msgs = given[s]
    BY <2>2 DEF Expecting
  <2>4. stream[s] \in Seq(Unit)
    BY SenderAssumption DEF CutInv, SenderTypeOK
  <2>5. taken[s] \in 0..Len(stream[s])
    BY <2>4 DEF LoopOk
  <2>6. loop[s].msgs = reached.msgs /\ (Receiving(s) => loop[s] = reached)
    BY DEF LoopOk
  <2>7. Begins(reached.msgs, given[s])
    BY <2>3, <2>4, <2>5, CutBegins
  <2>8. reached.msgs \in Seq(Seq(Piece))
    BY <2>4, <2>5, CutPlace DEF Place
  <2>9. ~Arrived(s) => reached = Expecting(given[s])
    <3>1. ~Arrived(s) => taken[s] = Len(stream[s])
      BY <2>4, <2>5 DEF Arrived
    <3> QED BY <2>2, <2>4, <3>1, PrefixEnds
  <2> HIDE DEF reached
  <2> QED BY <2>6, <2>7, <2>8, <2>9
<1>2. CutInv /\ LoopOk /\ [ReceptionNext]_receptionVars => (CutInv /\ LoopOk)'
  BY LoopKept, CutKept
<1> QED BY <1>1, <1>2, LoopStarts, PTL DEF ReceptionSpec
=============================================================================
