---------------------------- MODULE SimpleRedirect ----------------------------
(* tproxy without a strategy: one connection after the other is accepted,    *)
(* one read of the request is passed on, and the response is copied until it *)
(* ends, pauses for too long or cannot be written.  What main waits for has a *)
(* time limit where it reads and none where it writes.                       *)
EXTENDS Naturals, Sequences

CONSTANTS
  Client,       \* connections, each made once
  Routed,       \* those whose origin is not the router's address
  MaxPieces     \* bound: pieces of a response

ASSUME RedirectAssumption == Routed \subseteq Client /\ MaxPieces \in Nat

Nobody == "nobody"

VARIABLES
  queue,        \* connections that wait for accept
  client,       \* the client of each connection: off, open, gone
  server,       \* its server: off, open, done (it has closed)
  request,      \* connections on which something of a request has come
  response,     \* pieces written by the server
  returned,     \* pieces of the response that main has read
  full,         \* which ends of the connection in the hands of main do not
                \* read, and have no room for more
  now,          \* the connection in the hands of main, if any
  at,           \* where main is
  peer_fd,      \* whose peer_fd is open
  socket_fd,    \* whose accepted socket is open
  outcome       \* history: how each connection ended

streamVars == <<request, response, returned>>
redirectVars ==
  <<queue, client, server, streamVars, full, now, at, peer_fd, socket_fd, outcome>>

RedirectTypeOK ==
  /\ queue \in Seq(Client)
  /\ client \in [Client -> {"off", "open", "gone"}]
  /\ server \in [Client -> {"off", "open", "done"}]
  /\ request \subseteq Client
  /\ response \in [Client -> 0..MaxPieces] /\ returned \in [Client -> 0..MaxPieces]
  /\ full \subseteq {"client", "server"}
  /\ now \in Client \cup {Nobody}
  /\ at \in {"accept", "begin", "request", "write_peer", "response", "write_client",
            "close", "destroy"}
  /\ peer_fd \in Client \cup {Nobody} /\ socket_fd \in Client \cup {Nobody}
  /\ outcome \in [Client -> {"-", "none", "router", "failed", "ended", "timeout", "write"}]

RedirectInit ==
  /\ queue = <<>>
  /\ client = [c \in Client |-> "off"] /\ server = [c \in Client |-> "off"]
  /\ request = {} /\ full = {}
  /\ response = [c \in Client |-> 0] /\ returned = [c \in Client |-> 0]
  /\ now = Nobody /\ at = "accept" /\ peer_fd = Nobody /\ socket_fd = Nobody
  /\ outcome = [c \in Client |-> "-"]

-----------------------------------------------------------------------------
(* Clients and servers.                                                      *)

Connects(c) ==
  /\ client[c] = "off"
  /\ client' = [client EXCEPT ![c] = "open"]
  /\ queue' = Append(queue, c)
  /\ UNCHANGED <<server, streamVars, full, now, at, peer_fd, socket_fd, outcome>>

Asks(c) ==
  /\ client[c] = "open" /\ request' = request \cup {c}
  /\ UNCHANGED <<queue, client, server, response, returned, full, now, at,
                 peer_fd, socket_fd, outcome>>

Leaves(c) ==
  /\ client[c] = "open"
  /\ client' = [client EXCEPT ![c] = "gone"]
  /\ UNCHANGED <<queue, server, streamVars, full, now, at, peer_fd, socket_fd, outcome>>

Answers(c) ==
  /\ server[c] = "open" /\ peer_fd = c /\ response[c] < MaxPieces
  /\ response' = [response EXCEPT ![c] = @ + 1]
  /\ UNCHANGED <<queue, client, server, request, returned, full, now, at,
                 peer_fd, socket_fd, outcome>>

Ends(c) ==
  /\ server[c] = "open"
  /\ server' = [server EXCEPT ![c] = "done"]
  /\ UNCHANGED <<queue, client, streamVars, full, now, at, peer_fd, socket_fd, outcome>>

\* The client or the server of the connection in hand stops reading for as long as
\* it likes, and what the kernel keeps for it fills up.
StopsReading(end) ==
  /\ at \in {"request", "write_peer", "response", "write_client"}
  /\ full' = full \cup {end}
  /\ UNCHANGED <<queue, client, server, streamVars, now, at, peer_fd, socket_fd, outcome>>

ReadsAgain(end) ==
  /\ end \in full /\ full' = full \ {end}
  /\ UNCHANGED <<queue, client, server, streamVars, now, at, peer_fd, socket_fd, outcome>>

Others ==
  \/ \E c \in Client : Connects(c) \/ Asks(c) \/ Leaves(c) \/ Answers(c) \/ Ends(c)
  \/ \E end \in {"client", "server"} : StopsReading(end) \/ ReadsAgain(end)

-----------------------------------------------------------------------------
(* The constructor, the destructor, and the loop in main.                    *)

\* accept, and the way out for a connection to the router.
Accepts ==
  /\ at = "accept" /\ queue # <<>>
  /\ now' = Head(queue) /\ queue' = Tail(queue)
  /\ socket_fd' = Head(queue)
  /\ at' = IF Head(queue) \in Routed THEN "begin" ELSE "close"
  /\ outcome' = [outcome EXCEPT ![Head(queue)] =
                   IF Head(queue) \in Routed THEN "none" ELSE "router"]
  /\ UNCHANGED <<client, server, streamVars, full, peer_fd>>

\* socket and connect; where one fails nothing else is done.
Redirects ==
  /\ at = "begin"
  /\ \/ /\ peer_fd' = now /\ at' = "request"
        /\ server' = [server EXCEPT ![now] = "open"]
        /\ outcome' = outcome
     \/ /\ peer_fd' \in {now, Nobody} /\ at' = "close"
        /\ outcome' = [outcome EXCEPT ![now] = "failed"]
        /\ server' = server
  /\ UNCHANGED <<queue, client, streamVars, full, now, socket_fd>>

\* The one read of the request; nothing may have come, or not in time.
ReadRequest ==
  /\ at = "request"
  /\ at' = IF now \in request THEN "write_peer" ELSE "response"
  /\ UNCHANGED <<queue, client, server, streamVars, full, now, peer_fd, socket_fd, outcome>>

\* Its write, which waits for room.  What becomes of it is not looked at.
WriteRequest ==
  /\ at = "write_peer"
  /\ "server" \notin full \/ server[now] = "done"
  /\ at' = "response"
  /\ UNCHANGED <<queue, client, server, streamVars, full, now, peer_fd, socket_fd, outcome>>

Stop(why) == at' = "close" /\ outcome' = [outcome EXCEPT ![now] = why]

\* Mutant: a read of the response has no time limit.
ReadResponsePatiently ==
  /\ at = "response"
  /\ \/ /\ \E k \in returned[now] + 1..response[now] :
             returned' = [returned EXCEPT ![now] = k]
        /\ at' = "write_client" /\ outcome' = outcome
     \/ server[now] = "done" /\ Stop("ended") /\ returned' = returned
  /\ UNCHANGED <<queue, client, server, request, response, full, now, peer_fd, socket_fd>>

\* A read of the response: some of what has come, or the end of it (also by an
\* error, which leaves what has come), or nothing in time.
ReadResponse ==
  /\ at = "response"
  /\ \/ /\ \E k \in returned[now] + 1..response[now] :
             returned' = [returned EXCEPT ![now] = k]
        /\ at' = "write_client" /\ outcome' = outcome
     \/ server[now] = "done" /\ Stop("ended") /\ returned' = returned
     \/ /\ server[now] = "open" /\ returned[now] = response[now]
        /\ Stop("timeout") /\ returned' = returned
  /\ UNCHANGED <<queue, client, server, request, response, full, now, peer_fd, socket_fd>>

\* The write to the client, which waits for room; to one that is gone it may fail.
WriteResponse ==
  /\ at = "write_client"
  /\ \/ /\ "client" \notin full \/ client[now] = "gone"
        /\ at' = "response" /\ outcome' = outcome
     \/ client[now] = "gone" /\ Stop("write")
  /\ UNCHANGED <<queue, client, server, streamVars, full, now, peer_fd, socket_fd>>

\* close(client.socket_fd) in main.
ClosesClient ==
  /\ at = "close" /\ at' = "destroy"
  /\ socket_fd' = Nobody /\ full' = {}
  /\ UNCHANGED <<queue, client, server, streamVars, now, peer_fd, outcome>>

\* Mutant: peer_fd is closed only after a response.
DestroysIfServed ==
  /\ at = "destroy" /\ at' = "accept" /\ now' = Nobody
  /\ peer_fd' = IF outcome[now] \in {"ended", "timeout", "write"} THEN Nobody ELSE peer_fd
  /\ UNCHANGED <<queue, client, server, streamVars, full, socket_fd, outcome>>

\* ~SimpleRedirect.
Destroys ==
  /\ at = "destroy" /\ at' = "accept" /\ now' = Nobody
  /\ peer_fd' = Nobody
  /\ UNCHANGED <<queue, client, server, streamVars, full, socket_fd, outcome>>

Redirecting ==
  \/ Accepts \/ Redirects \/ ReadRequest \/ WriteRequest \/ ReadResponse
  \/ WriteResponse \/ ClosesClient \/ Destroys

\* main is in a write to an end that is there and does not read.
WaitsForReader ==
  \/ at = "write_peer" /\ "server" \in full /\ server[now] = "open"
  \/ at = "write_client" /\ "client" \in full /\ client[now] = "open"

-----------------------------------------------------------------------------
\* When main is back at accept it holds no descriptor of an earlier connection,
\* whichever of the early returns the constructor has taken (~SimpleRedirect).
NothingLeaks == at = "accept" => peer_fd = Nobody /\ socket_fd = Nobody

\* However long a client or a server keeps silent, everyone who connects is dealt
\* with (the receive timeouts), as long as responses end: only a client or a server
\* that does not read what main writes to it keeps the others waiting for ever.
EveryoneServed ==
  []<>(\/ \A c \in Client : client[c] = "open" => outcome[c] \notin {"-", "none"}
       \/ WaitsForReader)
=============================================================================
