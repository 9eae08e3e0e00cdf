-------------------------------- MODULE Sender --------------------------------
(* One process of the system under test with mysyscall preloaded: the hooks  *)
(* of connect, accept, close, write, send and sendto around the kernel's     *)
(* calls, and fd_map, which says of which descriptors the traffic is framed. *)
(* Threads of the process call the hooks at the same time; fd_map has no     *)
(* lock, and its accesses are taken as atomic.                               *)
(*                                                                           *)
(* A program uses a descriptor from the return of connect or accept until it *)
(* calls close, and not afterwards.                                          *)
EXTENDS Framing, FiniteSets

CONSTANTS
  Thread, Fd,
  Sock,         \* sockets the program opens
  Incoming,     \* those that accept returns; the others are connected
  Concerned,    \* those whose peer is an address of concern_addr_set
  NonBlocking,  \* those on which the kernel may take less than it is given,
                \* for want of room or at a signal
  Lens,         \* lengths of the messages sent
  MaxSends      \* bound on the messages of each socket

ASSUME SenderAssumption ==
  /\ Incoming \subseteq Sock /\ Concerned \subseteq Sock
  /\ NonBlocking \subseteq Sock
  /\ Lens \subseteq Nat /\ MaxSends \in [Sock -> Nat]

CONSTANTS Unopened, Closed
ASSUME PlaceAssumption == Unopened \notin Fd /\ Closed \notin Fd /\ Unopened # Closed

VARIABLES
  fd_map,     \* the descriptors entered by add_concerned_fd
  fd_of,      \* the descriptor of a socket, or Unopened, or Closed
  stream,     \* what the kernel has taken for a socket's connection
  given,      \* what the program knows to be sent: per call, the part taken
  sends,      \* calls begun on a socket
  call,       \* the hook a thread is in
  spoiled     \* history: sockets on which one of the known hazards has happened

senderVars == <<fd_map, fd_of, stream, given, sends, call, spoiled>>

Outside == [at |-> "outside"]

Unit == [kind : {"header"}, call : Nat, size : Lens]
          \cup [kind : {"body"}, call : Nat, part : Nat]

\* The hook a thread is in, and for a send the number and length of the message.
Brief == [at : {"opened", "closed"}, fd : Fd]
Sends == [at : {"sendto", "hack", "framed", "plain"}, fd : Fd, n : Nat, len : Lens]
Call == {Outside} \cup Brief \cup Sends

SenderTypeOK ==
  /\ fd_map \subseteq Fd
  /\ fd_of \in [Sock -> Fd \cup {Unopened, Closed}]
  /\ stream \in [Sock -> Seq(Unit)]
  /\ given \in [Sock -> Seq(Seq(Unit))]
  /\ sends \in [Sock -> Nat] /\ \A s \in Sock : sends[s] <= MaxSends[s]
  /\ call \in [Thread -> Call]
  /\ spoiled \subseteq Sock

SenderInit ==
  /\ fd_map = {}
  /\ fd_of = [s \in Sock |-> Unopened]
  /\ stream = [s \in Sock |-> <<>>] /\ given = [s \in Sock |-> <<>>]
  /\ sends = [s \in Sock |-> 0]
  /\ call = [t \in Thread |-> Outside]
  /\ spoiled = {}

\* The socket the kernel finds behind a descriptor.
SocketAt(f) == CHOOSE s \in Sock : fd_of[s] = f

Opening(f) == \E t \in Thread : call[t].at = "opened" /\ call[t].fd = f
Closing(f) == \E t \in Thread : call[t].at = "closed" /\ call[t].fd = f
Sending(f) == \E t \in Thread : call[t].at \notin {"outside", "opened", "closed"}
                                /\ call[t].fd = f

Enter(t, c) == call[t] = Outside /\ call' = [call EXCEPT ![t] = c]
Advance(t, place) == call' = [call EXCEPT ![t].at = place]
Return(t) == call' = [call EXCEPT ![t] = Outside]

-----------------------------------------------------------------------------
\* real_connect or real_accept has returned a descriptor nothing is open on.
Open(t, s) ==
  \E f \in Fd :
    /\ fd_of[s] = Unopened /\ \A r \in Sock : fd_of[r] # f
    /\ fd_of' = [fd_of EXCEPT ![s] = f]
    /\ Enter(t, [at |-> "opened", fd |-> f])
    /\ spoiled' = IF Closing(f) THEN spoiled \cup {s} ELSE spoiled
    /\ UNCHANGED <<fd_map, stream, given, sends>>

connect(t) == \E s \in Sock \ Incoming : Open(t, s)
accept(t) == \E s \in Incoming : Open(t, s)

\* Mutant: every address is of concern.
AddAlways(t) ==
  /\ call[t].at = "opened"
  /\ fd_map' = fd_map \cup {call[t].fd}
  /\ Return(t)
  /\ UNCHANGED <<fd_of, stream, given, sends, spoiled>>

\* Mutant: a connection that is still in progress is not entered.
AddIfConnected(t) ==
  /\ call[t].at = "opened"
  /\ fd_map' = IF SocketAt(call[t].fd) \in Concerned \ NonBlocking
               THEN fd_map \cup {call[t].fd} ELSE fd_map
  /\ Return(t)
  /\ UNCHANGED <<fd_of, stream, given, sends, spoiled>>

\* Mutant: the map is keyed by the address.
AddAddress(t) ==
  /\ call[t].at = "opened"
  /\ fd_map' = fd_map \cup ({SocketAt(call[t].fd)} \cap Concerned)
  /\ Return(t)
  /\ UNCHANGED <<fd_of, stream, given, sends, spoiled>>

\* The hook after the kernel's call: the address is looked up, then entered.
add_concerned_fd(t) ==
  /\ call[t].at = "opened"
  /\ fd_map' = IF SocketAt(call[t].fd) \in Concerned
               THEN fd_map \cup {call[t].fd} ELSE fd_map
  /\ Return(t)
  /\ UNCHANGED <<fd_of, stream, given, sends, spoiled>>

\* real_close: the descriptor is free from here on.
close(t) ==
  \E s \in Sock :
    LET f == fd_of[s]
    IN  /\ f \in Fd /\ ~Opening(f) /\ ~Sending(f)
        /\ fd_of' = [fd_of EXCEPT ![s] = Closed]
        /\ Enter(t, [at |-> "closed", fd |-> f])
        /\ UNCHANGED <<fd_map, stream, given, sends, spoiled>>

\* Mutant: close leaves the entry.
KeepConcernedFd(t) ==
  /\ call[t].at = "closed" /\ fd_map' = fd_map
  /\ Return(t)
  /\ UNCHANGED <<fd_of, stream, given, sends, spoiled>>

rm_concerned_fd(t) ==
  /\ call[t].at = "closed" /\ fd_map' = fd_map \ {call[t].fd}
  /\ Return(t)
  /\ UNCHANGED <<fd_of, stream, given, sends, spoiled>>

-----------------------------------------------------------------------------
\* The program sends on s; another thread in the middle of a send on s is a hazard.
BeginSend(t, s, place) ==
  \E len \in Lens :
    /\ fd_of[s] \in Fd /\ ~Opening(fd_of[s]) /\ sends[s] < MaxSends[s]
    /\ sends' = [sends EXCEPT ![s] = @ + 1]
    /\ Enter(t, [at |-> place, fd |-> fd_of[s], n |-> sends[s] + 1, len |-> len])
    /\ spoiled' = IF Sending(fd_of[s]) THEN spoiled \cup {s} ELSE spoiled
    /\ UNCHANGED <<fd_map, fd_of, stream, given>>

\* write goes by way of sendto if the descriptor is of concern.
write(t) ==
  \E s \in Sock : BeginSend(t, s, IF fd_of[s] \in fd_map THEN "sendto" ELSE "plain")

\* send always does.
send(t) == \E s \in Sock : BeginSend(t, s, "sendto")

\* sendto: is the descriptor of concern?
is_concerned(t) ==
  /\ call[t].at = "sendto"
  /\ Advance(t, IF call[t].fd \in fd_map THEN "hack" ELSE "plain")
  /\ UNCHANGED <<fd_map, fd_of, stream, given, sends, spoiled>>

SendHeader(t) ==
  LET c == call[t]
  IN  stream' = [stream EXCEPT ![SocketAt(c.fd)] = Append(@, Header(c.n, c.len))]

\* Mutant: the body is sent although the header could not be.
HackUnchecked(t) ==
  /\ call[t].at = "hack"
  /\ SendHeader(t) \/ (SocketAt(call[t].fd) \in NonBlocking /\ UNCHANGED stream)
  /\ Advance(t, "framed")
  /\ UNCHANGED <<fd_map, fd_of, given, sends, spoiled>>

\* Only -1 is an error: a header taken in part is followed by the message.
SendTornHeader(t, s) ==
  /\ s \in NonBlocking
  /\ \E unit \in TornHeaders(call[t].n, Lens) :
       stream' = [stream EXCEPT ![s] = Append(@, unit)]
  /\ spoiled' = spoiled \cup {s}

\* The header goes first; if the kernel refuses it, nothing of the message goes.
hack(t) ==
  /\ call[t].at = "hack"
  /\ \/ SendHeader(t) /\ Advance(t, "framed") /\ UNCHANGED spoiled
     \/ SendTornHeader(t, SocketAt(call[t].fd)) /\ Advance(t, "framed")
     \/ /\ SocketAt(call[t].fd) \in NonBlocking
        /\ Return(t) /\ UNCHANGED <<stream, spoiled>>
  /\ UNCHANGED <<fd_map, fd_of, given, sends>>

\* How much of a message the kernel may take.
Taken(s, len) == IF s \in NonBlocking THEN 0..len ELSE {len}

\* The message itself.  The program learns how much was taken; nothing of a
\* message that is not empty is -1.
real_sendto(t) ==
  LET c == call[t]
      s == SocketAt(c.fd)
  IN  /\ c.at \in {"framed", "plain"}
      /\ \E k \in Taken(s, c.len) :
           /\ stream' = [stream EXCEPT ![s] = @ \o Body(c.n, k)]
           /\ given' = IF k = 0 /\ c.len # 0 THEN given
                       ELSE [given EXCEPT ![s] = Append(@, Body(c.n, k))]
           /\ spoiled' = IF c.at = "framed" /\ k # c.len THEN spoiled \cup {s} ELSE spoiled
      /\ Return(t)
      /\ UNCHANGED <<fd_map, fd_of, sends>>

Hook(t) ==
  \/ connect(t) \/ accept(t) \/ add_concerned_fd(t)
  \/ close(t) \/ rm_concerned_fd(t)
  \/ write(t) \/ send(t) \/ is_concerned(t) \/ hack(t) \/ real_sendto(t)

SenderNext == \E t \in Thread : Hook(t)

SenderSpec == SenderInit /\ [][SenderNext]_senderVars

-----------------------------------------------------------------------------
(* The properties except the sockets in spoiled, on which one of four things *)
(* has happened: it was opened in the middle of another thread's close of    *)
(* its descriptor, two threads have sent on it at a time, the kernel has     *)
(* taken only part of a header, or less of a message than its header says.   *)

\* But for those, an open connection to a concerned peer is traced: no close of
\* an earlier user of its descriptor takes its entry away (config.cpp).
Traced ==
  \A s \in Concerned \ spoiled :
    fd_of[s] \in Fd /\ ~Opening(fd_of[s]) => fd_of[s] \in fd_map

\* A peer that is not tproxy's concern never gets a header, with the same
\* exceptions (check_fd_is_concerned_with_addr, rm_concerned_fd).
PlainUntouched ==
  \A s \in Sock \ (Concerned \cup spoiled) :
    \A i \in DOMAIN stream[s] : stream[s][i].kind = "body"

\* An entry is of an open concerned socket, or a thread is about to remove it:
\* close never leaves an entry behind, whatever the threads do (myclose.c).
StaleEntriesGo ==
  \A f \in fd_map :
    Closing(f) \/ \E s \in Concerned : fd_of[s] = f

\* "if the sendto msg is concerned, send the hacked_sendto_header first before
\* send real contents" (mysendto.h).
HeadersFirst ==
  \A s \in Concerned : \A i \in DOMAIN stream[s] :
    stream[s][i].kind = "body" =>
      \E j \in 1..i : /\ stream[s][j].kind = "header"
                      /\ stream[s][j].call = stream[s][i].call
=============================================================================
