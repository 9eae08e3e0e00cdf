-------------------------------- MODULE Link --------------------------------
(* What the router promises of every connection it splits, whatever is       *)
(* buffered, delivered by command, partitioned or recovered: each end        *)
(* receives the frames the other end wrote, each of them once and in the     *)
(* order written, until the connection is cut; a connection once cut never   *)
(* carries a frame again; and what is passed on without framing comes in the *)
(* order written too, each piece once and from behind all the frames, though *)
(* it may overtake them, and of a piece only part may come.                  *)
EXTENDS Endpoints, Naturals, Sequences, FiniteSets

VARIABLES
  state,     \* state[c] \in {"new", "up", "cut"}
  written,   \* written[e]: how many items the program at e has written
  received   \* received[e]: the items the program at e has received

vars == <<state, written, received>>

Init ==
  /\ state = [c \in Conn |-> "new"]
  /\ written = [e \in End |-> 0]
  /\ received = [e \in End |-> <<>>]

Open(c) ==
  /\ state[c] = "new"
  /\ state' = [state EXCEPT ![c] = "up"]
  /\ UNCHANGED <<written, received>>

Write(e) ==
  /\ written' = [written EXCEPT ![e] = @ + 1]
  /\ UNCHANGED <<state, received>>

\* Where the frames are among what has been received.
FramesIn(items) == {i \in DOMAIN items : ~items[i].raw}

Arrives(e, n, raw, whole) ==
  /\ n \in 1 .. written[Peer(e)]
  /\ received' = [received EXCEPT ![e] =
                    Append(@, [from |-> Peer(e), n |-> n, raw |-> raw, whole |-> whole])]
  /\ UNCHANGED <<state, written>>

\* The next frame, which was written before anything that was passed on.
Receive(e) ==
  LET n == Cardinality(FramesIn(received[e])) + 1
  IN  /\ state[e[1]] = "up"
      /\ \A i \in DOMAIN received[e] : received[e][i].raw => n < received[e][i].n
      /\ Arrives(e, n, FALSE, TRUE)

\* Something unframed, written after all that has arrived so far, or part of it.
ReceiveRaw(e, n) ==
  /\ state[e[1]] # "new"
  /\ \A i \in DOMAIN received[e] : received[e][i].n < n
  /\ \E whole \in BOOLEAN : Arrives(e, n, TRUE, whole)

\* A refusal, an EOF, a failed write, a partition or a recovery; the last two
\* cut every connection of a node at once.
Cut(C) ==
  /\ \E c \in C : state[c] # "cut"
  /\ state' = [c \in Conn |-> IF c \in C THEN "cut" ELSE state[c]]
  /\ UNCHANGED <<written, received>>

Next ==
  \/ \E c \in Conn : Open(c)
  \/ \E e \in End : \/ Write(e) \/ Receive(e)
                    \/ \E n \in 1 .. written[Peer(e)] : ReceiveRaw(e, n)
  \/ \E C \in SUBSET Conn : Cut(C)

Spec == Init /\ [][Next]_vars
=============================================================================
