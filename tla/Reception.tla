------------------------------ MODULE Reception ------------------------------
(* The streams of a process's concerned connections at the other end: the    *)
(* loop of do_receive, which takes what has come, at any moment between two  *)
(* steps of the hooks.                                                       *)
EXTENDS Sender

VARIABLES
  taken,     \* taken[s]: how many units of the stream the loop has taken
  loop       \* loop[s]: where it is in the stream, see Framing

receptionVars == <<senderVars, taken, loop>>

ReceptionInit ==
  /\ SenderInit
  /\ taken = [s \in Concerned |-> 0]
  /\ loop = [s \in Concerned |-> Expecting(<<>>)]

\* The loop still examines what comes, and something has come.
Receiving(s) == loop[s].at \in {"header", "body"}
Arrived(s) == taken[s] < Len(stream[s])

\* One turn of the loop, or one unit of the message it receives.
ReceiveUnit(s) ==
  /\ Receiving(s) /\ Arrived(s)
  /\ loop' = [loop EXCEPT ![s] = Take(@, stream[s][taken[s] + 1])]
  /\ taken' = [taken EXCEPT ![s] = @ + 1]

\* Fewer than four bytes of a header have come when the loop looks: they do not
\* pass packet_validation, whatever follows.  With four or more it comes back.
HeaderInPieces(s) ==
  /\ loop[s].at = "header" /\ Arrived(s)
  /\ loop' = [loop EXCEPT ![s] = Passing(@.msgs)]
  /\ UNCHANGED taken

\* A message has not come whole within the receive timeout, or by the EOF: the
\* connection is closed.
BodyLate(s) ==
  /\ loop[s].at = "body"
  /\ loop' = [loop EXCEPT ![s] = Ended(@.msgs)]
  /\ UNCHANGED taken

do_receive(s) ==
  /\ ReceiveUnit(s) \/ HeaderInPieces(s) \/ BodyLate(s)
  /\ UNCHANGED senderVars

ReceptionNext ==
  \/ SenderNext /\ UNCHANGED <<taken, loop>>
  \/ \E s \in Concerned : do_receive(s)

ReceptionSpec == ReceptionInit /\ [][ReceptionNext]_receptionVars

-----------------------------------------------------------------------------
\* While no send is under way on a concerned connection, what tproxy has cut out
\* of its stream are the first of the messages the program knows to be sent, in
\* order, with nothing else between them; and once it has taken all of the stream
\* they are all of them, unless it has closed the connection over a late message
\* or passes it on unexamined since a header came in pieces (sendto, do_receive).
\* Excepted are the sockets in spoiled.
Transparent ==
  \A s \in Concerned \ spoiled : ~Sending(fd_of[s]) =>
    /\ Len(loop[s].msgs) <= Len(given[s])
    /\ \A i \in DOMAIN loop[s].msgs : loop[s].msgs[i] = given[s][i]
    /\ Receiving(s) /\ ~Arrived(s) => loop[s] = Expecting(given[s])
=============================================================================
